---------------------------- MODULE Spec2Model ----------------------------
(***************************************************************************)
(* The WebSocket framing engine of src/wsgi/protocolwebsocket.cpp          *)
(* (CWSGI::ProtocolWebSocket) as a state machine.                          *)
(*                                                                         *)
(* One connection is modelled: its Socket fields (websocket_...), the bytes*)
(* the transport holds unread (io), the bytes the peer has not sent yet    *)
(* (wire) and the ordered log of everything the engine does to its         *)
(* collaborators (session callbacks, io->write, connectionClose).          *)
(*                                                                         *)
(* Bytes are integers 0..255, a QByteArray is a sequence of bytes and a    *)
(* QString is a sequence of Unicode code points.  The byte order of        *)
(* ws_be16 is the one a little-endian build computes.  QTextCodec's UTF-8  *)
(* decoder eats a byte-order mark that opens the bytes it is given.        *)
(***************************************************************************)
EXTENDS Integers, Sequences, FiniteSets, TLC

VARIABLES
    frames,   \* the frames the peer sends on this connection (input, fixed by Init)
    wire,     \* bytes of those frames that have not reached the transport yet
    sock,     \* the Socket object: its websocket_... fields
    io,       \* QIODevice: bytes available and not yet read
    closed,   \* number of Socket::connectionClose() calls so far
    log,      \* ordered log of session callbacks, io->write calls and connectionClose
    ioError,  \* TRUE once an io->read of this connection has returned -1
    split,    \* TRUE once a readyRead invocation has returned in the middle of a frame
    websocketMaxSize,  \* wsgi->websocketMaxSize(): the configured maximum, in KiB
    trip      \* a header built by createWebsocketHeader and what it decodes to

vars == <<frames, wire, sock, io, closed, log, ioError, split, websocketMaxSize, trip>>

-----------------------------------------------------------------------------
(* Bounds and configuration *)

\* Configured scratch buffer size: the most bytes one io->read may return.
PostBufferSize == 8

\* Configured maximum message size in KiB (wsgi->websocketMaxSize()).
WebsocketMaxSizeKiB == 1

\* Largest number of frames in one generated fragmented message.
MaxFragments == 3

m_postBufferSize == PostBufferSize

\* m_websockets_max_size = wsgi->websocketMaxSize() * 1024
m_websockets_max_size == websocketMaxSize * 1024

-----------------------------------------------------------------------------
(* Program constants *)

OpCodeContinue == 0
OpCodeText == 1
OpCodeBinary == 2
OpCodeReserved3 == 3
OpCodeReserved7 == 7
OpCodeClose == 8
OpCodePing == 9
OpCodePong == 10
OpCodeReservedB == 11
OpCodeReservedF == 15

WebSocketPhaseHeaders == 0
WebSocketPhaseSize == 1
WebSocketPhaseMask == 2
WebSocketPhasePayload == 3

CloseCodeNormal == 1000
CloseCodeGoingAway == 1001
CloseCodeProtocolError == 1002
CloseCodeDatatypeNotSupported == 1003
CloseCodeMissingStatusCode == 1005
CloseCodeWrongDatatype == 1007
CloseCodePolicyViolated == 1008
CloseCodeTooMuchData == 1009
CloseCodeMissingExtension == 1010
CloseCodeBadOperation == 1011

-----------------------------------------------------------------------------
(* Bytes and sequences *)

Min(a, b) == IF a < b THEN a ELSE b

\* QByteArray::left(n)
Left(s, n) == SubSeq(s, 1, Min(n, Len(s)))

\* QByteArray::mid(pos): the bytes from 0-based offset pos to the end
Mid(s, pos) == SubSeq(s, pos + 1, Len(s))

RECURSIVE BitXor(_, _, _)
\* a ^ b on the low n bits
BitXor(a, b, n) ==
    IF n = 0 THEN 0
    ELSE (((a % 2) + (b % 2)) % 2) + (2 * BitXor(a \div 2, b \div 2, n - 1))

\* buf[i] ^ mask[maskIx % 4] on one byte
Xor8(a, b) == BitXor(a, b, 8)


-----------------------------------------------------------------------------
(* UTF-8: QTextCodec::toUnicode with a fresh ConverterState, QString::toUtf8 *)

isContinuationByte(b) == (b >= 128) /\ (b < 192)

\* One step of the decoder at the lead byte s[i].  res > 0: a code point uc
\* made of res bytes; res = 0: an invalid sequence (one byte is consumed and
\* U+FFFD is produced); res = -1: the input ends inside a sequence.
fromUtf8(s, i) ==
    LET b == s[i]
        avail == Len(s) - i
        charsNeeded == IF b < 224 THEN 2 ELSE IF b < 240 THEN 3 ELSE 4
        min_uc == IF b < 224 THEN 128 ELSE IF b < 240 THEN 2048 ELSE 65536
        lead == IF b < 224 THEN b % 32 ELSE IF b < 240 THEN b % 16 ELSE b % 8
        uc2 == (lead * 64) + (s[i + 1] % 64)
        uc3 == (uc2 * 64) + (s[i + 2] % 64)
        uc4 == (uc3 * 64) + (s[i + 3] % 64)
        uc == IF charsNeeded = 2 THEN uc2 ELSE IF charsNeeded = 3 THEN uc3 ELSE uc4
    IN  IF b < 128 THEN [res |-> 1, uc |-> b]
        ELSE IF b <= 193 \/ b >= 245 THEN [res |-> 0, uc |-> 0]
        ELSE IF avail < charsNeeded - 1 THEN
            IF \E k \in 1..avail : ~isContinuationByte(s[i + k])
            THEN [res |-> 0, uc |-> 0]
            ELSE [res |-> -1, uc |-> 0]
        ELSE IF \E k \in 1..(charsNeeded - 1) : ~isContinuationByte(s[i + k])
            THEN [res |-> 0, uc |-> 0]
        ELSE IF uc < min_uc \/ (uc >= 55296 /\ uc <= 57343) \/ uc > 1114111
            THEN [res |-> 0, uc |-> 0]
        ELSE [res |-> charsNeeded, uc |-> uc]

\* s[i] is a continuation byte that the valid sequence starting at the
\* nearest lead byte before it takes in.
Covered(s, i) ==
    /\ isContinuationByte(s[i])
    /\ \E d \in 1..3 :
        /\ i - d >= 1
        /\ ~isContinuationByte(s[i - d])
        /\ \A e \in 1..(d - 1) : isContinuationByte(s[i - e])
        /\ fromUtf8(s, i - d).res > d

\* Where the decoder's loop stops: at the lead byte of a sequence that the
\* end of the input cuts short, or past the last byte.
EndPos(s) ==
    IF \E p \in 1..Len(s) : p >= Len(s) - 2 /\ s[p] >= 128 /\ fromUtf8(s, p).res = -1
    THEN CHOOSE p \in 1..Len(s) : p >= Len(s) - 2 /\ s[p] >= 128 /\ fromUtf8(s, p).res = -1
    ELSE Len(s) + 1

\* The positions at which the decoder's loop calls fromUtf8, in order: the
\* loop goes on after a sequence by its length and after an error by one byte.
Starts(s) == SelectSeq([i \in 1..(EndPos(s) - 1) |-> i], LAMBDA i : ~Covered(s, i))

\* The decoder's loop over s once the header is done: the text, the number
\* of invalid bytes and the number of bytes of a sequence that the end of
\* the input cuts short.  An invalid byte gives U+FFFD.
convertToUnicode(s) ==
    LET starts == Starts(s)
    IN  [str |-> [k \in 1..Len(starts) |->
                    IF fromUtf8(s, starts[k]).res > 0
                    THEN fromUtf8(s, starts[k]).uc ELSE 65533],
         invalidChars |-> Cardinality({k \in 1..Len(starts) : fromUtf8(s, starts[k]).res = 0}),
         remainingChars |-> (Len(s) + 1) - EndPos(s)]

\* The UTF-8 byte-order mark, U+FEFF encoded.
utf8bom == <<239, 187, 191>>

\* m_codec->toUnicode(data, size, &state) with a default-constructed state:
\* the text and the state's invalidChars and remainingChars afterwards.
\* Every call of the source passes a fresh ConverterState, whose flags do not
\* ask to keep the header, so a byte-order mark that opens the input is
\* eaten: it gives no character.  A byte-order mark anywhere else is the
\* character U+FEFF.
toUnicode(s) ==
    IF Len(s) >= 3 /\ SubSeq(s, 1, 3) = utf8bom
    THEN convertToUnicode(Mid(s, 3))
    ELSE convertToUnicode(s)

\* The UTF-8 bytes of one code point.
Utf8Bytes(c) ==
    IF c < 128 THEN <<c>>
    ELSE IF c < 2048 THEN <<192 + (c \div 64), 128 + (c % 64)>>
    ELSE IF c < 65536 THEN
        <<224 + (c \div 4096), 128 + ((c \div 64) % 64), 128 + (c % 64)>>
    ELSE <<240 + (c \div 262144), 128 + ((c \div 4096) % 64),
           128 + ((c \div 64) % 64), 128 + (c % 64)>>

\* QString::toUtf8(): the bytes of every code point, in order.  Slot p stands
\* for byte ((p - 1) % 4) + 1 of code point ((p - 1) \div 4) + 1; the slots a
\* code point does not fill are left out.
toUtf8(str) ==
    LET used == SelectSeq([p \in 1..(4 * Len(str)) |-> p],
                          LAMBDA p : ((p - 1) % 4) + 1
                                        <= Len(Utf8Bytes(str[((p - 1) \div 4) + 1])))
    IN  [q \in 1..Len(used) |->
            Utf8Bytes(str[((used[q] - 1) \div 4) + 1])[((used[q] - 1) % 4) + 1]]


-----------------------------------------------------------------------------
(* The frame encoder *)

\* (n >> (8 * k)) & 0xff for an int n >= 0
ByteOf(len, k) == IF k >= 4 THEN 0 ELSE (len \div (256 ^ k)) % 256

\* A quint64 is the function from k in 0..7 to its byte of weight 256^k.
\* The conversion of a non-negative int to quint64:
U64(n) == [k \in 0..7 |-> ByteOf(n, k)]

\* a < b on quint64
U64Less(a, b) ==
    \E k \in 0..7 : a[k] < b[k] /\ \A j \in (k + 1)..7 : a[j] = b[j]

\* The int value of a quint64 below 2^31
ToInt(v) == v[0] + (256 * v[1]) + (65536 * v[2]) + (16777216 * v[3])

\* ProtocolWebSocket::createWebsocketHeader(opcode, len), len a quint64
createWebsocketHeader(opcode, len) ==
    IF U64Less(len, U64(126)) THEN <<(128 + opcode) % 256, len[0]>>
    ELSE IF ~U64Less(U64(65535), len) THEN <<(128 + opcode) % 256, 126, len[1], len[0]>>
    ELSE <<(128 + opcode) % 256, 127, len[7], len[6], len[5], len[4],
           len[3], len[2], len[1], len[0]>>

\* Mutant of createWebsocketCloseReply: the encoded reason is cut after 125
\* bytes instead of 123.
createWebsocketCloseReply_Left125(msg, closeCode) ==
    LET data == Left(toUtf8(msg), 125)
    IN  createWebsocketHeader(OpCodeClose, U64(Len(data) + 2))
            \o <<ByteOf(closeCode, 1), ByteOf(closeCode, 0)>> \o data

\* ProtocolWebSocket::createWebsocketCloseReply(msg, closeCode)
createWebsocketCloseReply(msg, closeCode) ==
    LET data == Left(toUtf8(msg), 123)
    IN  createWebsocketHeader(OpCodeClose, U64(Len(data) + 2))
            \o <<ByteOf(closeCode, 1), ByteOf(closeCode, 0)>> \o data

\* ws_be16(buf): the 16-bit big-endian value of buf[0], buf[1]
ws_be16(buf) == (buf[1] * 256) + buf[2]

\* Mutant of ws_be64: the eight bytes are taken in memory order.
ws_be64_NoSwap(buf) == [k \in 0..7 |-> buf[k + 1]]

\* ws_be64(buf): *src is the quint64 loaded from buf[0..7], whose byte of
\* weight 256^j is buf[j]; ptr[i] = (*src >> (56 - 8 * i)) & 0xff is stored
\* at byte i of ret, the byte of weight 256^i.
ws_be64(buf) ==
    LET src == [j \in 0..7 |-> buf[j + 1]]
        ptr == [i \in 0..7 |-> src[7 - i]]
    IN  [k \in 0..7 |-> ptr[k]]

-----------------------------------------------------------------------------
(* The collaborators.  A world w is [sock, io, closed, log]. *)

Ev(kind, data, fin, code) == [ev |-> kind, data |-> data, fin |-> fin, code |-> code]

Call(w, e) == [w EXCEPT !.log = Append(@, e)]

\* request->webSocketTextFrame(frame, isContinue, c)
webSocketTextFrame(w, frame, fin) == Call(w, Ev("textFrame", frame, fin, 0))

\* request->webSocketTextMessage(msg, c)
webSocketTextMessage(w, msg) == Call(w, Ev("textMessage", msg, TRUE, 0))

\* request->webSocketBinaryFrame(frame, isContinue, c)
webSocketBinaryFrame(w, frame, fin) == Call(w, Ev("binaryFrame", frame, fin, 0))

\* request->webSocketBinaryMessage(msg, c)
webSocketBinaryMessage(w, msg) == Call(w, Ev("binaryMessage", msg, TRUE, 0))

\* request->webSocketPong(payload, c)
webSocketPong(w, payload) == Call(w, Ev("pong", payload, TRUE, 0))

\* request->webSocketClosed(closeCode, reason)
webSocketClosed(w, closeCode, reason) == Call(w, Ev("closed", reason, TRUE, closeCode))

\* io->write(bytes)
ioWrite(w, bytes) == Call(w, Ev("write", bytes, TRUE, 0))

\* sock->connectionClose(): the transport is told to disconnect.  The bytes
\* it already holds stay readable.
connectionClose(w) ==
    [w EXCEPT !.closed = @ + 1, !.log = Append(@, Ev("connectionClose", <<>>, TRUE, 0))]

\* websocket_finn_opcode & 0x80
FinOf(w) == w.sock.websocket_finn_opcode >= 128

\* websocket_finn_opcode & 0xf
OpcodeOf(w) == w.sock.websocket_finn_opcode % 16


-----------------------------------------------------------------------------
(* Dispatch of a complete frame *)

\* sock->websocket_message.append(sock->websocket_payload)
AppendPayload(w) == [w EXCEPT !.sock.websocket_message = @ \o w.sock.websocket_payload]

\* sock->websocket_message = QByteArray(); sock->websocket_payload = QByteArray()
Cleared(w) == [w EXCEPT !.sock.websocket_message = <<>>, !.sock.websocket_payload = <<>>]

\* Mutant of SequenceEnded: websocket_continue_opcode is left as it is.
SequenceEnded_StaysOpen(w) == w

\* sock->websocket_continue_opcode = 0
SequenceEnded(w) == [w EXCEPT !.sock.websocket_continue_opcode = 0]

\* state.invalidChars || state.remainingChars
Failed(state) == state.invalidChars # 0 \/ state.remainingChars # 0

\* The bytes send_text decodes for the frame-level callback, w being the
\* Socket as send_text finds it: the frame's payload, or the message from
\* websocket_start_of_frame on when bytes of earlier frames were held back.
FramePayload(w) ==
    IF w.sock.websocket_start_of_frame # Len(w.sock.websocket_message)
    THEN Mid(w.sock.websocket_message \o w.sock.websocket_payload,
             w.sock.websocket_start_of_frame)
    ELSE w.sock.websocket_payload

\* send_text from `if (sock->websocket_finn_opcode & 0x80)` on.  The test in
\* the else branch reads the frame's converter state, not stateMsg.
send_text_message(w, frame, state, singleFrame) ==
    IF ~FinOf(w) THEN [w |-> w, ret |-> TRUE]
    ELSE IF singleFrame \/ w.sock.websocket_payload = w.sock.websocket_message
    THEN [w |-> Cleared(webSocketTextMessage(SequenceEnded(w), frame)), ret |-> TRUE]
    ELSE IF Failed(state) THEN [w |-> connectionClose(SequenceEnded(w)), ret |-> FALSE]
    ELSE [w |-> Cleared(webSocketTextMessage(
                    SequenceEnded(w), toUnicode(w.sock.websocket_message).str)),
          ret |-> TRUE]

\* send_text once payload has been decoded into state: the close of a single
\* frame that is not UTF-8, or the frame-level callback, then the rest.
send_text_frame(w, payload, state, singleFrame) ==
    IF singleFrame /\ (Failed(state) \/ (state.str = <<>> /\ Len(payload) # 0))
    THEN [w |-> connectionClose(w), ret |-> FALSE]
    ELSE IF ~Failed(state)
    THEN send_text_message(
            webSocketTextFrame(
                [w EXCEPT !.sock.websocket_start_of_frame = Len(w.sock.websocket_message)],
                state.str, FinOf(w)),
            state.str, state, singleFrame)
    ELSE send_text_message(w, state.str, state, singleFrame)

\* m_codec->toUnicode(payload.data(), payload.size(), &state) in send_text
send_text_decode(w, payload, singleFrame) ==
    send_text_frame(w, payload, toUnicode(payload), singleFrame)

\* ProtocolWebSocket::send_text(c, sock, singleFrame)
send_text(w, singleFrame) ==
    send_text_decode(AppendPayload(w), FramePayload(w), singleFrame)

\* Mutant of send_binary_message: the message callback always carries the
\* last frame.
send_binary_message_LastFrame(w, frame, singleFrame) ==
    IF ~FinOf(w) THEN w
    ELSE Cleared(webSocketBinaryMessage(SequenceEnded(w), frame))

\* send_binary from `if (sock->websocket_finn_opcode & 0x80)` on
send_binary_message(w, frame, singleFrame) ==
    IF ~FinOf(w) THEN w
    ELSE IF singleFrame \/ w.sock.websocket_payload = w.sock.websocket_message
    THEN Cleared(webSocketBinaryMessage(SequenceEnded(w), frame))
    ELSE Cleared(webSocketBinaryMessage(SequenceEnded(w), w.sock.websocket_message))

\* send_binary once the payload is appended to the message
send_binary_frame(w, singleFrame) ==
    send_binary_message(
        webSocketBinaryFrame(w, w.sock.websocket_payload, FinOf(w)),
        w.sock.websocket_payload, singleFrame)

\* ProtocolWebSocket::send_binary(c, sock, singleFrame)
send_binary(w, singleFrame) == send_binary_frame(AppendPayload(w), singleFrame)

\* Mutant of send_pong: the reply goes out with the opcode of a Ping.
send_pong_PingOpcode(w, data) ==
    ioWrite(ioWrite(w, createWebsocketHeader(OpCodePing, U64(Len(data)))), data)

\* ProtocolWebSocket::send_pong(io, data)
send_pong(w, data) ==
    ioWrite(ioWrite(w, createWebsocketHeader(OpCodePong, U64(Len(data)))), data)

\* Mutant of CloseCodeChecked: a missing status code is a protocol error
\* even when the payload is empty.
CloseCodeChecked_NoEmptyCase(closeCode, reason, payloadIsEmpty) ==
    IF closeCode \in {CloseCodeNormal, CloseCodeGoingAway, CloseCodeProtocolError,
                      CloseCodeDatatypeNotSupported, CloseCodeWrongDatatype,
                      CloseCodePolicyViolated, CloseCodeTooMuchData,
                      CloseCodeMissingExtension, CloseCodeBadOperation}
    THEN [closeCode |-> closeCode, reason |-> reason]
    ELSE IF closeCode = CloseCodeMissingStatusCode
    THEN [closeCode |-> CloseCodeProtocolError, reason |-> reason]
    ELSE [closeCode |-> CloseCodeProtocolError, reason |-> <<>>]

\* Mutant of CloseCodeChecked: the default case leaves the reason as it is.
CloseCodeChecked_DefaultKeepsReason(closeCode, reason, payloadIsEmpty) ==
    IF closeCode \in {CloseCodeNormal, CloseCodeGoingAway, CloseCodeProtocolError,
                      CloseCodeDatatypeNotSupported, CloseCodeWrongDatatype,
                      CloseCodePolicyViolated, CloseCodeTooMuchData,
                      CloseCodeMissingExtension, CloseCodeBadOperation}
    THEN [closeCode |-> closeCode, reason |-> reason]
    ELSE IF closeCode = CloseCodeMissingStatusCode
    THEN [closeCode |-> IF payloadIsEmpty THEN CloseCodeNormal ELSE CloseCodeProtocolError,
          reason |-> reason]
    ELSE [closeCode |-> CloseCodeProtocolError, reason |-> reason]

\* The switch of send_closed on a close code outside 3000..4999.
CloseCodeChecked(closeCode, reason, payloadIsEmpty) ==
    IF closeCode \in {CloseCodeNormal, CloseCodeGoingAway, CloseCodeProtocolError,
                      CloseCodeDatatypeNotSupported, CloseCodeWrongDatatype,
                      CloseCodePolicyViolated, CloseCodeTooMuchData,
                      CloseCodeMissingExtension, CloseCodeBadOperation}
    THEN [closeCode |-> closeCode, reason |-> reason]
    ELSE IF closeCode = CloseCodeMissingStatusCode
    THEN [closeCode |-> IF payloadIsEmpty THEN CloseCodeNormal ELSE CloseCodeProtocolError,
          reason |-> reason]
    ELSE [closeCode |-> CloseCodeProtocolError, reason |-> <<>>]

\* The close code of a Close payload: its first two bytes, or 1005.
CloseCodeOf(payload) ==
    IF Len(payload) >= 2 THEN ws_be16(payload) ELSE CloseCodeMissingStatusCode

\* The converter state after decoding the reason of a Close payload.
CloseState(payload) ==
    IF Len(payload) >= 2 THEN toUnicode(Mid(payload, 2))
    ELSE [str |-> <<>>, invalidChars |-> 0, remainingChars |-> 0]

\* Mutant of CloseReplied: the converter state is not looked at.
CloseReplied_NoUtf8Check(closeCode, state, payloadIsEmpty) ==
    IF closeCode < 3000 \/ closeCode > 4999
    THEN CloseCodeChecked(closeCode, state.str, payloadIsEmpty)
    ELSE [closeCode |-> closeCode, reason |-> state.str]

\* The close code and reason that send_closed replies with.
CloseReplied(closeCode, state, payloadIsEmpty) ==
    IF Failed(state) THEN [closeCode |-> CloseCodeProtocolError, reason |-> <<>>]
    ELSE IF closeCode < 3000 \/ closeCode > 4999
    THEN CloseCodeChecked(closeCode, state.str, payloadIsEmpty)
    ELSE [closeCode |-> closeCode, reason |-> state.str]

\* send_closed from createWebsocketCloseReply on
send_closed_reply(w, final) ==
    connectionClose(ioWrite(w, createWebsocketCloseReply(final.reason, final.closeCode)))

\* send_closed on a payload with close code closeCode and reason decoded
\* into state
send_closed_payload(w, closeCode, state) ==
    send_closed_reply(webSocketClosed(w, closeCode, state.str),
                      CloseReplied(closeCode, state, w.sock.websocket_payload = <<>>))

\* ProtocolWebSocket::send_closed(c, sock, io)
send_closed(w) ==
    send_closed_payload(w, CloseCodeOf(w.sock.websocket_payload),
                        CloseState(w.sock.websocket_payload))


-----------------------------------------------------------------------------
(* The parser phases *)

\* buf[i] ^ mask[maskIx % 4] for every byte of buf, maskIx counting on from
\* the payload bytes the frame already holds (0-based)
Unmask(buf, mask, maskIx) ==
    [i \in 1..Len(buf) |-> Xor8(buf[i], mask[((maskIx + i - 1) % 4) + 1])]

\* Mutant of HeaderRefused: the RSV bits are not looked at.
HeaderRefused_NoRsvCheck(byte1, byte2, continue_opcode) ==
    LET opcode == byte1 % 16
        payload_size == byte2 % 128
    IN  \/ byte2 < 128
        \/ (opcode = OpCodePing \/ opcode = OpCodeClose) /\ payload_size > 125
        \/ (opcode >= OpCodeReserved3 /\ opcode <= OpCodeReserved7)
        \/ (opcode >= OpCodeReservedB /\ opcode <= OpCodeReservedF)
        \/ byte1 < 128 /\ opcode # OpCodeText /\ opcode # OpCodeBinary
                       /\ opcode # OpCodeContinue
        \/ continue_opcode # 0 /\ (opcode = OpCodeText \/ opcode = OpCodeBinary)

\* Mutant of HeaderRefused: an open continuation sequence is not looked at.
HeaderRefused_NoSequenceCheck(byte1, byte2, continue_opcode) ==
    LET opcode == byte1 % 16
        payload_size == byte2 % 128
    IN  \/ byte2 < 128
        \/ (opcode = OpCodePing \/ opcode = OpCodeClose) /\ payload_size > 125
        \/ (byte1 \div 16) % 8 # 0
        \/ (opcode >= OpCodeReserved3 /\ opcode <= OpCodeReserved7)
        \/ (opcode >= OpCodeReservedB /\ opcode <= OpCodeReservedF)
        \/ byte1 < 128 /\ opcode # OpCodeText /\ opcode # OpCodeBinary
                       /\ opcode # OpCodeContinue

\* Mutant of HeaderRefused: a Ping or Close header is refused above 126, so
\* the length field 126 passes.
HeaderRefused_ControlLimit126(byte1, byte2, continue_opcode) ==
    LET opcode == byte1 % 16
        payload_size == byte2 % 128
    IN  \/ byte2 < 128
        \/ (opcode = OpCodePing \/ opcode = OpCodeClose) /\ payload_size > 126
        \/ (byte1 \div 16) % 8 # 0
        \/ (opcode >= OpCodeReserved3 /\ opcode <= OpCodeReserved7)
        \/ (opcode >= OpCodeReservedB /\ opcode <= OpCodeReservedF)
        \/ byte1 < 128 /\ opcode # OpCodeText /\ opcode # OpCodeBinary
                       /\ opcode # OpCodeContinue
        \/ continue_opcode # 0 /\ (opcode = OpCodeText \/ opcode = OpCodeBinary)

\* The header test of websocket_parse_header: TRUE when the header is refused.
HeaderRefused(byte1, byte2, continue_opcode) ==
    LET opcode == byte1 % 16
        websocket_has_mask == byte2 >= 128
        payload_size == byte2 % 128
    IN  \/ ~websocket_has_mask
        \/ (opcode = OpCodePing \/ opcode = OpCodeClose) /\ payload_size > 125
        \/ (byte1 \div 16) % 8 # 0
        \/ (opcode >= OpCodeReserved3 /\ opcode <= OpCodeReserved7)
        \/ (opcode >= OpCodeReservedB /\ opcode <= OpCodeReservedF)
        \/ byte1 < 128 /\ opcode # OpCodeText /\ opcode # OpCodeBinary
                       /\ opcode # OpCodeContinue
        \/ continue_opcode # 0 /\ (opcode = OpCodeText \/ opcode = OpCodeBinary)

\* ProtocolWebSocket::websocket_parse_header(sock, buf, io)
websocket_parse_header(w, buf) ==
    LET byte1 == buf[1]
        byte2 == buf[2]
        opcode == byte1 % 16
        w1 == [w EXCEPT !.sock.websocket_finn_opcode = byte1,
                        !.sock.websocket_payload_size = byte2 % 128]
        w2 == IF opcode = OpCodeText \/ opcode = OpCodeBinary
              THEN [w1 EXCEPT !.sock.websocket_message = <<>>,
                              !.sock.websocket_start_of_frame = 0,
                              !.sock.websocket_continue_opcode =
                                  IF byte1 < 128 THEN opcode ELSE @]
              ELSE w1
        size == w2.sock.websocket_payload_size
    IN  IF HeaderRefused(byte1, byte2, w.sock.websocket_continue_opcode)
        THEN [w |-> connectionClose(
                      ioWrite(w1, createWebsocketCloseReply(<<>>, CloseCodeProtocolError))),
              ret |-> FALSE]
        ELSE [w |-> [w2 EXCEPT
                       !.sock.websocket_need = IF size = 126 THEN 2
                                               ELSE IF size = 127 THEN 8 ELSE 4,
                       !.sock.websocket_phase = IF size = 126 \/ size = 127
                                                THEN WebSocketPhaseSize
                                                ELSE WebSocketPhaseMask],
              ret |-> TRUE]

\* Mutant of ExtendedLength: the 64-bit size is cut to its low 32 bits.
ExtendedLength_Low32(payload_size, buf) ==
    IF payload_size = 126 THEN U64(ws_be16(buf))
    ELSE [k \in 0..7 |-> IF k < 4 THEN ws_be64(buf)[k] ELSE 0]

\* The quint64 size that websocket_parse_size reads: ws_be16 of two bytes when
\* the 7-bit field is 126, ws_be64 of eight bytes when it is 127.
ExtendedLength(payload_size, buf) ==
    IF payload_size = 126 THEN U64(ws_be16(buf)) ELSE ws_be64(buf)

\* ProtocolWebSocket::websocket_parse_size(sock, buf, websockets_max_message_size).
\* A size that passes the test is at most the int websockets_max_message_size.
websocket_parse_size(w, buf, websockets_max_message_size) ==
    IF w.sock.websocket_payload_size # 126 /\ w.sock.websocket_payload_size # 127
    THEN [w |-> connectionClose(w), ret |-> FALSE]
    ELSE IF U64Less(U64(websockets_max_message_size),
                    ExtendedLength(w.sock.websocket_payload_size, buf))
    THEN [w |-> connectionClose(w), ret |-> FALSE]
    ELSE [w |-> [w EXCEPT !.sock.websocket_payload_size =
                              ToInt(ExtendedLength(w.sock.websocket_payload_size, buf)),
                          !.sock.websocket_need = 4,
                          !.sock.websocket_phase = WebSocketPhaseMask],
          ret |-> TRUE]

\* Mutant of Dispatch: a Continue frame with no sequence open is handed to
\* send_binary.
Dispatch_OrphanAsBinary(w) ==
    LET opcode == OpcodeOf(w)
    IN  IF opcode = OpCodeContinue THEN
            IF w.sock.websocket_continue_opcode = OpCodeText THEN send_text(w, FALSE)
            ELSE [w |-> send_binary(w, FALSE), ret |-> TRUE]
        ELSE IF opcode = OpCodeText THEN send_text(w, FinOf(w))
        ELSE IF opcode = OpCodeBinary THEN [w |-> send_binary(w, FinOf(w)), ret |-> TRUE]
        ELSE IF opcode = OpCodeClose THEN [w |-> send_closed(w), ret |-> FALSE]
        ELSE IF opcode = OpCodePing
        THEN [w |-> send_pong(w, Left(w.sock.websocket_payload, 125)), ret |-> TRUE]
        ELSE IF opcode = OpCodePong
        THEN [w |-> webSocketPong(w, w.sock.websocket_payload), ret |-> TRUE]
        ELSE [w |-> w, ret |-> TRUE]

\* The switch of websocket_parse_payload on a complete frame.
Dispatch(w) ==
    LET opcode == OpcodeOf(w)
    IN  IF opcode = OpCodeContinue THEN
            IF w.sock.websocket_continue_opcode = OpCodeText THEN send_text(w, FALSE)
            ELSE IF w.sock.websocket_continue_opcode = OpCodeBinary
            THEN [w |-> send_binary(w, FALSE), ret |-> TRUE]
            ELSE [w |-> connectionClose(w), ret |-> FALSE]
        ELSE IF opcode = OpCodeText THEN send_text(w, FinOf(w))
        ELSE IF opcode = OpCodeBinary THEN [w |-> send_binary(w, FinOf(w)), ret |-> TRUE]
        ELSE IF opcode = OpCodeClose THEN [w |-> send_closed(w), ret |-> FALSE]
        ELSE IF opcode = OpCodePing
        THEN [w |-> send_pong(w, Left(w.sock.websocket_payload, 125)), ret |-> TRUE]
        ELSE IF opcode = OpCodePong
        THEN [w |-> webSocketPong(w, w.sock.websocket_payload), ret |-> TRUE]
        ELSE [w |-> w, ret |-> TRUE]

\* Mutant of websocket_parse_payload_complete: the frame counts as complete
\* one byte early.
websocket_parse_payload_complete_OneShort(w, len) ==
    IF Len(w.sock.websocket_payload) + 1 < w.sock.websocket_payload_size
    THEN [w |-> [w EXCEPT !.sock.websocket_need = @ - len], ret |-> TRUE]
    ELSE Dispatch([w EXCEPT !.sock.websocket_need = 2,
                            !.sock.websocket_phase = WebSocketPhaseHeaders])

\* websocket_parse_payload once the unmasked bytes are appended: more to
\* come, or the frame is complete and dispatched.
websocket_parse_payload_complete(w, len) ==
    IF Len(w.sock.websocket_payload) < w.sock.websocket_payload_size
    THEN [w |-> [w EXCEPT !.sock.websocket_need = @ - len], ret |-> TRUE]
    ELSE Dispatch([w EXCEPT !.sock.websocket_need = 2,
                            !.sock.websocket_phase = WebSocketPhaseHeaders])

\* Mutant of websocket_parse_payload: the mask index restarts at 0 in every
\* call instead of counting on from the payload bytes already held.
websocket_parse_payload_MaskRestarts(w, buf) ==
    websocket_parse_payload_complete(
        [w EXCEPT !.sock.websocket_payload = @ \o Unmask(buf, w.sock.websocket_mask, 0)],
        Len(buf))

\* ProtocolWebSocket::websocket_parse_payload(sock, buf, len, io)
websocket_parse_payload(w, buf) ==
    websocket_parse_payload_complete(
        [w EXCEPT !.sock.websocket_payload =
            @ \o Unmask(buf, w.sock.websocket_mask, Len(w.sock.websocket_payload))],
        Len(buf))

\* Mutant of MaskTaken: websocket_need is left at the 4 of the mask phase.
MaskTaken_KeepsNeed(w, buf) ==
    [w EXCEPT !.sock.websocket_mask = SubSeq(buf, 1, 4),
              !.sock.websocket_phase = WebSocketPhasePayload,
              !.sock.websocket_payload = <<>>]

\* The assignments of websocket_parse_mask, before it looks at the payload
\* size: the mask, the phase, the need and an empty payload.
MaskTaken(w, buf) ==
    [w EXCEPT !.sock.websocket_mask = SubSeq(buf, 1, 4),
              !.sock.websocket_phase = WebSocketPhasePayload,
              !.sock.websocket_need = w.sock.websocket_payload_size,
              !.sock.websocket_payload = <<>>]

\* Mutant of websocket_parse_mask: a frame without payload is not handed to
\* websocket_parse_payload.
websocket_parse_mask_WaitsForPayload(w, buf) == MaskTaken(w, buf)

\* ProtocolWebSocket::websocket_parse_mask(sock, buf, io): it returns nothing,
\* so what websocket_parse_payload returns for an empty payload is dropped.
\* websocket_payload_size is at most the maximum message size, an int, so
\* storing it in the 32-bit websocket_need keeps its value.
websocket_parse_mask(w, buf) ==
    IF w.sock.websocket_payload_size = 0
    THEN websocket_parse_payload(MaskTaken(w, buf), <<>>).w
    ELSE MaskTaken(w, buf)

\* The test at the top of readyRead's loop: TRUE when the loop returns.
NeedMoreData(w, bytesAvailable) ==
    \/ bytesAvailable = 0
    \/ w.sock.websocket_need = 0
    \/ bytesAvailable < w.sock.websocket_need
         /\ w.sock.websocket_phase # WebSocketPhasePayload

\* One phase of the switch in readyRead, on the bytes just read.
ParsePhase(w, buf) ==
    IF w.sock.websocket_phase = WebSocketPhaseHeaders THEN websocket_parse_header(w, buf)
    ELSE IF w.sock.websocket_phase = WebSocketPhaseSize
    THEN websocket_parse_size(w, buf, m_websockets_max_size)
    ELSE IF w.sock.websocket_phase = WebSocketPhaseMask
    THEN [w |-> websocket_parse_mask(w, buf), ret |-> TRUE]
    ELSE websocket_parse_payload(w, buf)

\* The bytes one turn of the loop reads: io->read(m_postBuffer, maxlen).
TurnBuf(w) == Left(w.io, Min(w.sock.websocket_need, m_postBufferSize))

\* One turn of the loop that does not return at its top: the read and the
\* phase's parser.  It gives the world after the turn and whether the loop
\* goes on.
Turn(w) == ParsePhase([w EXCEPT !.io = Mid(@, Len(TurnBuf(w)))], TurnBuf(w))

RECURSIVE readLoop(_, _)

\* The rest of one turn of the loop, r being what the phase's parser returned
\* and read the number of bytes it was given.
readNext(r, bytesAvailable, read) ==
    IF r.ret THEN readLoop(r.w, bytesAvailable - read) ELSE r.w

\* io->read(m_postBuffer, maxlen) and the switch on the phase
readPhase(w, buf, bytesAvailable) ==
    readNext(ParsePhase([w EXCEPT !.io = Mid(@, Len(buf))], buf), bytesAvailable, Len(buf))

\* Mutant of readLoop: when more data is needed the bytes that are available
\* are read and dropped.
readLoop_DropsOnReturn(w, bytesAvailable) ==
    IF NeedMoreData(w, bytesAvailable) THEN [w EXCEPT !.io = <<>>]
    ELSE readPhase(w, Left(w.io, Min(w.sock.websocket_need, m_postBufferSize)),
                   bytesAvailable)

\* The Q_FOREVER loop of readyRead with a transport whose reads succeed.
readLoop(w, bytesAvailable) ==
    IF NeedMoreData(w, bytesAvailable) THEN w
    ELSE readPhase(w, Left(w.io, Min(w.sock.websocket_need, m_postBufferSize)),
                   bytesAvailable)

\* ProtocolWebSocket::readyRead(sock, io)
readyRead(w) == readLoop(w, Len(w.io))

RECURSIVE readPoints(_, _)

\* The rest of one turn of the loop for readPoints, r being what the phase's
\* parser returned.
readPointsNext(r, bytesAvailable) ==
    IF r.ret THEN readPoints(r.w, bytesAvailable) ELSE {}

\* The worlds in which the loop of readyRead calls io->read, from w on: one
\* for every turn that does not return at its top, whatever an earlier turn
\* did to the connection.
readPoints(w, bytesAvailable) ==
    IF NeedMoreData(w, bytesAvailable) THEN {}
    ELSE {w} \cup readPointsNext(Turn(w), bytesAvailable - Len(TurnBuf(w)))

\* ProtocolWebSocket::readyRead(sock, io) when one of its io->read calls
\* returns -1: the worlds it can leave, one for each read of the invocation.
\* The failing read takes nothing from the transport; the connection is
\* closed and readyRead returns.
readyReadFailed(w) == {connectionClose(p) : p \in readPoints(w, Len(w.io))}


-----------------------------------------------------------------------------
(* The peer: frames as they are put on the wire (RFC 6455 client side) *)

\* A frame is [fin, rsv, opcode, mask, len7, ext, key, payload]: the header
\* fields, the extended length bytes, the masking key and the payload
\* before masking.
WireOf(f) ==
    <<(f.fin * 128) + (f.rsv * 16) + f.opcode, (f.mask * 128) + f.len7>>
        \o f.ext
        \o (IF f.mask = 1 THEN f.key \o Unmask(f.payload, f.key, 0) ELSE f.payload)

RECURSIVE WireOfAll(_)
WireOfAll(fs) == IF fs = <<>> THEN <<>> ELSE WireOf(Head(fs)) \o WireOfAll(Tail(fs))

\* A well-formed masked frame; enc is the length encoding: 7, 16 or 64 bits.
Frame(fin, opcode, enc, key, payload) ==
    [fin |-> fin, rsv |-> 0, opcode |-> opcode, mask |-> 1,
     len7 |-> IF enc = 7 THEN Len(payload) ELSE IF enc = 16 THEN 126 ELSE 127,
     ext |-> IF enc = 7 THEN <<>>
             ELSE IF enc = 16 THEN <<ByteOf(Len(payload), 1), ByteOf(Len(payload), 0)>>
             ELSE <<0, 0, 0, 0, ByteOf(Len(payload), 3), ByteOf(Len(payload), 2),
                    ByteOf(Len(payload), 1), ByteOf(Len(payload), 0)>>,
     key |-> key, payload |-> payload]

\* A frame with arbitrary header bits and a 7-bit length.
RawFrame(fin, rsv, opcode, mask, key, payload) ==
    [fin |-> fin, rsv |-> rsv, opcode |-> opcode, mask |-> mask,
     len7 |-> Len(payload), ext |-> <<>>, key |-> key, payload |-> payload]

Key1 == <<55, 250, 33, 61>>
Key2 == <<255, 1, 128, 90>>

\* Length encoding and key of a generated message, varied together.
EncKeys == {<<7, Key1>>, <<16, Key2>>, <<64, Key1>>}

\* Text payloads: "h", the two bytes of U+00E9 apart and together, and "h"
\* followed by the lead byte of U+00E9.
TextPayloads == {<<>>, <<104>>, <<195>>, <<169>>, <<104, 195>>}

BinaryPayloads == {<<>>, <<0, 255>>}

\* The sequences of n elements of S.
SeqsOfLen(S, n) == [1..n -> S]

\* A message of n frames: opcode (Text or Binary) with FIN clear, Continue
\* frames, and FIN set on the last one.
Fragmented(opcode, ek, ps) ==
    [i \in 1..Len(ps) |->
        Frame(IF i = Len(ps) THEN 1 ELSE 0,
              IF i = 1 THEN opcode ELSE OpCodeContinue,
              IF i = 1 THEN ek[1] ELSE 7, ek[2], ps[i])]

\* A payload longer than one io->read can return.
LongPayload == [i \in 1..(m_postBufferSize + 2) |-> 96 + i]

\* "hel" and "lo"
Hel == <<104, 101, 108>>
Lo == <<108, 111>>

\* Fragmented messages with a Ping or a Pong between the fragments, with a
\* long first fragment, and the message "hel" + "lo".
SpecialMessages ==
    {<<Frame(0, op, ek[1], ek[2], p), Frame(1, ctl, 7, Key2, c),
       Frame(1, OpCodeContinue, 7, ek[2], q)>> :
        op \in {OpCodeText, OpCodeBinary}, ek \in EncKeys, p \in {<<104>>, <<195>>},
        ctl \in {OpCodePing, OpCodePong}, c \in {<<>>, <<7>>}, q \in {<<169>>}}
    \cup {Fragmented(op, ek, <<LongPayload, <<104>>>>) :
            op \in {OpCodeText, OpCodeBinary}, ek \in EncKeys}
    \cup {Fragmented(OpCodeText, ek, <<Hel, Lo>>) : ek \in EncKeys}

\* Text messages with a byte-order mark: at the head of the message, at the
\* head of a later fragment, and cut in two by the end of a fragment.
BomMessages ==
    {Fragmented(OpCodeText, <<7, Key1>>, ps) :
        ps \in {<<utf8bom, <<104>>>>, <<utf8bom \o <<104>>, <<104>>>>,
                <<Hel, utf8bom \o Lo>>, <<<<104>>, utf8bom>>,
                <<<<239, 187>>, <<191>>>>, <<<<104>>, <<239, 187>>, <<191>>>>}}

\* Messages of two fragments in every length encoding, and messages of up
\* to MaxFragments fragments with 7-bit lengths.
FragmentedMessages ==
    SpecialMessages
    \cup BomMessages
    \cup {Fragmented(OpCodeText, ek, ps) : ek \in EncKeys, ps \in SeqsOfLen(TextPayloads, 2)}
    \cup {Fragmented(OpCodeBinary, ek, ps) : ek \in EncKeys, ps \in SeqsOfLen(BinaryPayloads, 2)}
    \cup UNION {
        {Fragmented(OpCodeText, <<7, Key1>>, ps) :
            ps \in SeqsOfLen(TextPayloads \ {<<104, 195>>}, n)}
        \cup
        {Fragmented(OpCodeBinary, <<7, Key2>>, ps) : ps \in SeqsOfLen(BinaryPayloads, n)}
        : n \in 3..MaxFragments }

-----------------------------------------------------------------------------
(* The state machine *)

\* The Socket of a connection that has just completed its handshake.
Sock0 ==
    [websocket_phase |-> WebSocketPhaseHeaders,
     websocket_need |-> 2,
     websocket_finn_opcode |-> 0,
     websocket_payload_size |-> 0,
     websocket_mask |-> <<0, 0, 0, 0>>,
     websocket_payload |-> <<>>,
     websocket_message |-> <<>>,
     websocket_continue_opcode |-> 0,
     websocket_start_of_frame |-> 0]

World == [sock |-> sock, io |-> io, closed |-> closed, log |-> log]

World0(bytes) == [sock |-> Sock0, io |-> bytes, closed |-> 0, log |-> <<>>]

\* No header round trip is under way.
NoTrip == [step |-> "none", opcode |-> 0, len |-> U64(0), header |-> <<>>,
           decoded |-> U64(0)]

\* A connection whose handshake is done, on a server configured with a
\* maximum message size of kib KiB; the peer is about to send the frames fs.
InitConn(fs, kib) ==
    /\ frames = fs
    /\ wire = WireOfAll(fs)
    /\ sock = Sock0
    /\ io = <<>>
    /\ closed = 0
    /\ log = <<>>
    /\ ioError = FALSE
    /\ split = FALSE
    /\ websocketMaxSize = kib
    /\ trip = NoTrip

InitWith(fs) == InitConn(fs, WebsocketMaxSizeKiB)

Become(w) ==
    /\ sock' = w.sock
    /\ io' = w.io
    /\ closed' = w.closed
    /\ log' = w.log

\* k more bytes reach the transport, which signals readyRead.
Arrive ==
    /\ closed = 0
    /\ \E k \in 1..Len(wire) :
        /\ wire' = Mid(wire, k)
        /\ Become(readyRead([World EXCEPT !.io = @ \o Left(wire, k)]))
    /\ split' = (split \/ (closed' = 0 /\ (sock'.websocket_phase # WebSocketPhaseHeaders
                                          \/ io' # <<>>)))
    /\ UNCHANGED <<frames, ioError, websocketMaxSize, trip>>

\* k more bytes reach the transport, which signals readyRead, and one of the
\* io->read calls of that invocation fails.
ReadFailure ==
    /\ closed = 0
    /\ \E k \in 1..Len(wire) :
        \E r \in readyReadFailed([World EXCEPT !.io = @ \o Left(wire, k)]) :
            /\ wire' = Mid(wire, k)
            /\ Become(r)
    /\ ioError' = TRUE
    /\ UNCHANGED <<frames, split, websocketMaxSize, trip>>

Next == Arrive \/ ReadFailure

InitFrag == \E fs \in FragmentedMessages : InitWith(fs)

\* Connections that carry one fragmented message.
SpecFrag == InitFrag /\ [][Next]_vars

\* A payload that needs the 16-bit length encoding.
Payload126 == [i \in 1..126 |-> 97 + (i % 26)]

SinglePayloads ==
    {<<>>, <<104>>, <<195, 169>>, Hel \o Lo, LongPayload, <<195>>, <<255>>,
     utf8bom, utf8bom \o <<104>>}

\* One Text frame with FIN set, in each length encoding.
SingleTextFrames ==
    {<<Frame(1, OpCodeText, enc, key, p)>> :
        enc \in {7, 16, 64}, key \in {Key1, Key2}, p \in SinglePayloads}
    \cup {<<Frame(1, OpCodeText, 16, Key1, Payload126)>>}

InitSingle == \E fs \in SingleTextFrames : InitWith(fs)

\* Connections that carry one unfragmented text message.
SpecSingle == InitSingle /\ [][Next]_vars

\* A Binary frame whose 16-bit extended length is above every configured
\* maximum the model uses; its payload is never sent.
Oversized ==
    [fin |-> 1, rsv |-> 0, opcode |-> OpCodeBinary, mask |-> 1, len7 |-> 126,
     ext |-> <<255, 255>>, key |-> Key1, payload |-> <<>>]

\* Frames on which the engine closes the connection: Close frames, a Continue
\* frame with no sequence open, a Text frame that is not UTF-8, a header with
\* RSV1 set, an oversized length.
ClosingFrames ==
    {Frame(1, OpCodeClose, 7, Key1, p) : p \in {<<>>, <<3, 232>>, <<3, 232, 104>>, <<3>>}}
    \cup {Frame(1, OpCodeContinue, 7, Key1, p) : p \in {<<>>, <<104>>}}
    \cup {Frame(1, OpCodeText, 7, Key1, <<255>>),
          RawFrame(1, 4, OpCodeText, 1, Key1, <<104>>),
          Oversized}

FollowingFrames ==
    {Frame(1, OpCodeText, 7, Key2, <<104>>), Frame(1, OpCodeBinary, 7, Key2, <<0, 255>>),
     Frame(1, OpCodePing, 7, Key2, <<7>>), Frame(1, OpCodePong, 7, Key2, <<7>>),
     Frame(1, OpCodeClose, 7, Key2, <<>>)}

InitClose == \E c \in ClosingFrames, f \in FollowingFrames : InitWith(<<c, f>>)

\* Connections on which a closing frame is followed by one more frame.
SpecClose == InitClose /\ [][Next]_vars

\* Frames with every combination of FIN, one RSV bit or none, opcode and
\* mask bit.
AnyHeaderFrames ==
    {RawFrame(fin, rsv, opcode, mask, Key1, <<104>>) :
        fin \in 0..1, rsv \in {0, 1, 2, 4}, opcode \in 0..15, mask \in 0..1}
    \cup {RawFrame(fin, 0, opcode, 1, Key1, <<>>) : fin \in 0..1, opcode \in 0..15}

\* Nothing, or the first fragment of a message, before the frame under test.
OpeningFrames ==
    {<<>>, <<Frame(0, OpCodeText, 7, Key2, <<104>>)>>,
     <<Frame(0, OpCodeBinary, 7, Key2, <<0, 255>>)>>}

InitHdr == \E pre \in OpeningFrames, x \in AnyHeaderFrames : InitWith(pre \o <<x>>)

\* Connections on which an arbitrary header arrives, with or without a
\* continuation sequence open.
SpecHdr == InitHdr /\ [][Next]_vars

\* A masked frame whose length field and extended length bytes are chosen
\* freely; sent is the part of the payload the peer goes on to send.
SizedFrame(fin, opcode, len7, ext, sent) ==
    [fin |-> fin, rsv |-> 0, opcode |-> opcode, mask |-> 1, len7 |-> len7,
     ext |-> ext, key |-> Key1, payload |-> sent]

\* Length fields of control frames: 7-bit lengths up to 125, and extended
\* lengths, some of which declare no more than a 7-bit field could.
ControlLengths ==
    {<<0, <<>>, <<>>>>, <<2, <<>>, <<3, 232>>>>, <<125, <<>>, <<3, 232>>>>,
     <<126, <<0, 2>>, <<3, 232>>>>, <<126, <<0, 126>>, <<3, 232>>>>,
     <<127, <<0, 0, 0, 0, 0, 0, 0, 2>>, <<3, 232>>>>}

ControlFrames ==
    {<<SizedFrame(fin, opcode, l[1], l[2], l[3])>> :
        fin \in 0..1, opcode \in {OpCodePing, OpCodePong, OpCodeClose},
        l \in ControlLengths}

InitCtl == \E fs \in ControlFrames : InitWith(fs)

\* Connections that carry one control frame.
SpecCtl == InitCtl /\ [][Next]_vars

\* Close codes on both sides of every range send_closed tells apart.
CloseCodes ==
    {0, 999, 1000, 1001, 1002, 1003, 1004, 1005, 1006, 1007, 1008, 1009, 1010, 1011,
     1012, 1015, 2999, 3000, 4999, 5000, 65535}

\* Reason bytes: none, ASCII, a two-byte code point, three that are not
\* UTF-8 (an invalid byte, a sequence cut short, an invalid byte after text),
\* and two that open with a byte-order mark.
Reasons ==
    {<<>>, <<104>>, <<195, 169>>, <<255>>, <<195>>, <<104, 255>>,
     utf8bom, utf8bom \o <<104>>}

\* The two bytes of a close code, big-endian.
CodeBytes(c) == <<ByteOf(c, 1), ByteOf(c, 0)>>

\* The longest reason a Close frame can carry.
Reason123 == [i \in 1..123 |-> 97 + (i % 26)]

ClosePayloads ==
    {<<>>, <<3>>, <<232>>, CodeBytes(CloseCodeNormal) \o Reason123}
    \cup {CodeBytes(c) \o r : c \in CloseCodes, r \in Reasons}

CloseFrames == {<<Frame(1, OpCodeClose, 7, Key1, p)>> : p \in ClosePayloads}

InitCodes == \E fs \in CloseFrames : InitWith(fs)

\* Connections that carry one Close frame.
SpecCodes == InitCodes /\ [][Next]_vars

\* The eight bytes of a quint64, big-endian.
BigEndian8(u) == <<u[7], u[6], u[5], u[4], u[3], u[2], u[1], u[0]>>

\* The quint64 whose byte of weight 256^k is b and whose byte of weight 1 is low.
U64With(k, b, low) == [j \in 0..7 |-> IF j = k THEN b ELSE IF j = 0 THEN low ELSE 0]

\* Extended length fields around a maximum of kib KiB: the 7-bit marker and
\* the length bytes.  The 64-bit ones go up to 2^64 - 1 and include 2^32 + 3,
\* whose low 32 bits are small.
SizeFields(kib) ==
    {<<126, CodeBytes(n)>> : n \in {0, 3, kib * 1024, (kib * 1024) + 1, 65535}}
    \cup {<<127, BigEndian8(U64(n))>> : n \in {0, 3, kib * 1024, (kib * 1024) + 1, 65536}}
    \cup {<<127, BigEndian8(u)>> :
            u \in {U64With(3, 128, 0), U64With(4, 1, 0), U64With(4, 1, 3),
                   U64With(4, 2, 0), U64With(7, 128, 0), [j \in 0..7 |-> 255]}}

\* The length a frame declares in its extended length bytes, as a quint64.
Declared(x) ==
    IF x.len7 = 126 THEN U64((x.ext[1] * 256) + x.ext[2])
    ELSE [k \in 0..7 |-> x.ext[8 - k]]

\* A Binary frame with the size field sf: all its payload when it declares
\* at most 3 bytes, else its first 2 bytes only.
SizedBinary(sf) ==
    SizedFrame(1, OpCodeBinary, sf[1], sf[2],
               IF sf[2] = CodeBytes(0) \/ sf[2] = BigEndian8(U64(0)) THEN <<>>
               ELSE IF sf[2] = CodeBytes(3) \/ sf[2] = BigEndian8(U64(3)) THEN <<65, 66, 67>>
               ELSE <<65, 66>>)

\* A frame with an extended length followed by a Ping, and messages of
\* frames with 7-bit lengths.
SizedConnections(kib) ==
    {<<SizedBinary(sf), Frame(1, OpCodePing, 7, Key2, <<7>>)>> : sf \in SizeFields(kib)}
    \cup {<<Frame(0, op, 7, Key1, <<65, 66>>), Frame(1, OpCodeContinue, 7, Key2, <<67>>)>> :
            op \in {OpCodeText, OpCodeBinary}}

\* Servers configured with no message size at all, or with the usual one.
InitSize ==
    \E kib \in {0, WebsocketMaxSizeKiB} : \E fs \in SizedConnections(kib) : InitConn(fs, kib)

\* Connections on which lengths meet the configured maximum message size.
SpecSize == InitSize /\ [][Next]_vars

\* The length the engine decodes from a header: the 7-bit field of the
\* second byte, or the extended length that follows it.
DecodeLength(header) ==
    LET payload_size == header[2] % 128
    IN  IF payload_size < 126 THEN U64(payload_size)
        ELSE ExtendedLength(payload_size, SubSeq(header, 3, Len(header)))

\* Lengths at and around every threshold of the length encoding, up to
\* 2^64 - 1.
RoundTripLengths ==
    {U64(n) : n \in {0, 1, 2, 124, 125, 126, 127, 128, 255, 256, 65534, 65535,
                     65536, 65537, 16777216}}
    \cup {U64With(3, 128, 0), U64With(3, 255, 255), U64With(4, 1, 0),
          U64With(4, 1, 3), U64With(4, 2, 0), U64With(7, 128, 0),
          [j \in 0..7 |-> 255]}

\* The 4-bit opcodes.
Opcodes == 0..15

\* A header is about to be made for an opcode and a length.
InitLen ==
    \E opcode \in Opcodes : \E len \in RoundTripLengths :
        /\ frames = <<>>
        /\ wire = <<>>
        /\ sock = Sock0
        /\ io = <<>>
        /\ closed = 0
        /\ log = <<>>
        /\ ioError = FALSE
        /\ split = FALSE
        /\ websocketMaxSize = WebsocketMaxSizeKiB
        /\ trip = [step |-> "input", opcode |-> opcode, len |-> len,
                   header |-> <<>>, decoded |-> U64(0)]

\* createWebsocketHeader makes the header.
Encode ==
    /\ trip.step = "input"
    /\ trip' = [trip EXCEPT !.step = "encoded",
                            !.header = createWebsocketHeader(trip.opcode, trip.len)]
    /\ UNCHANGED <<frames, wire, sock, io, closed, log, ioError, split, websocketMaxSize>>

\* The engine's length decoding reads the header back.
Decode ==
    /\ trip.step = "encoded"
    /\ trip' = [trip EXCEPT !.step = "decoded", !.decoded = DecodeLength(trip.header)]
    /\ UNCHANGED <<frames, wire, sock, io, closed, log, ioError, split, websocketMaxSize>>

NextLen == Encode \/ Decode

\* Headers made by createWebsocketHeader and read back by the length decoding.
SpecLen == InitLen /\ [][NextLen]_vars

\* A reason of a letters, then the code point c (none when c = 0), then b
\* letters.
ReasonOf(a, c, b) ==
    [i \in 1..a |-> 97] \o (IF c = 0 THEN <<>> ELSE <<c>>) \o [i \in 1..b |-> 98]

\* Reasons whose encoding is shorter than, as long as and longer than 123
\* bytes, with a code point of 1 to 4 bytes before, across and after byte 123.
ReplyReasons ==
    {ReasonOf(a, c, b) : a \in {0, 1, 119, 120, 121, 122, 123, 124, 130},
                         c \in {0, 233, 8364, 128512}, b \in {0, 2}}

\* Close codes as a quint16: the ends of the range, a defined code, and codes
\* whose two bytes differ in each order.
ReplyCodes == {0, 255, 256, 1000, 1002, 4999, 65535}

\* A close reply is about to be made for a reason and a close code.
InitReply ==
    \E reason \in ReplyReasons : \E code \in ReplyCodes :
        /\ frames = <<>>
        /\ wire = <<>>
        /\ sock = Sock0
        /\ io = <<>>
        /\ closed = 0
        /\ log = <<>>
        /\ ioError = FALSE
        /\ split = FALSE
        /\ websocketMaxSize = WebsocketMaxSizeKiB
        /\ trip = [step |-> "input", reason |-> reason, code |-> code, reply |-> <<>>]

\* createWebsocketCloseReply makes the frame.
Reply ==
    /\ trip.step = "input"
    /\ trip' = [trip EXCEPT !.step = "replied",
                            !.reply = createWebsocketCloseReply(trip.reason, trip.code)]
    /\ UNCHANGED <<frames, wire, sock, io, closed, log, ioError, split, websocketMaxSize>>

NextReply == Reply

\* Close frames made by createWebsocketCloseReply.
SpecReply == InitReply /\ [][NextReply]_vars

\* The longest payload a Ping can carry.
Ping125 == [i \in 1..125 |-> i]

Ping(payload) == Frame(1, OpCodePing, 7, Key2, payload)

\* Two and three Pings in a row with payloads of 0 bytes to more than one
\* io->read returns, a Ping of 125 bytes before and after a short one, and
\* Pings around a single-frame Binary message.
PingConnections ==
    {<<Ping(p), Ping(q)>> : p, q \in {<<>>, <<7>>, <<8, 9>>, LongPayload}}
    \cup {<<Ping(p), Ping(q), Ping(r)>> : p, q, r \in {<<>>, <<7>>, <<8, 9>>}}
    \cup {<<Ping(Ping125), Ping(<<7>>)>>, <<Ping(<<7>>), Ping(Ping125)>>}
    \cup {<<Ping(p), Frame(1, OpCodeBinary, 7, Key1, b), Ping(q)>> :
            p, q \in {<<>>, <<7>>}, b \in BinaryPayloads}

InitPing == \E fs \in PingConnections : InitWith(fs)

\* Connections that carry several Ping frames.
SpecPing == InitPing /\ [][Next]_vars

\* The length encodings and keys of the frames without payload: every
\* encoding for a data frame, the 7-bit one for a control frame.
EmptyEncKeys(op) ==
    IF op \in {OpCodeText, OpCodeBinary} THEN EncKeys \cup {<<7, Key2>>, <<16, Key1>>}
    ELSE {<<7, Key1>>, <<7, Key2>>}

\* A final frame without payload, alone or followed by another frame.
EmptyFrameConnections ==
    {<<Frame(1, oe[1], oe[2][1], oe[2][2], <<>>)>> \o rest :
        oe \in UNION {{<<op, ek>> : ek \in EmptyEncKeys(op)} :
                        op \in {OpCodeText, OpCodeBinary, OpCodePing, OpCodePong}},
        rest \in {<<>>, <<Ping(<<7>>)>>, <<Frame(1, OpCodeText, 7, Key1, <<104>>)>>,
                  <<Frame(1, OpCodePong, 7, Key1, <<8, 9>>)>>}}

InitEmpty == \E fs \in EmptyFrameConnections : InitWith(fs)

\* Connections that start with a frame without payload.
SpecEmpty == InitEmpty /\ [][Next]_vars

\* A message of opcode op in one of four shapes: a single frame, two
\* fragments, two fragments with a Ping and a Pong between them, three
\* fragments of which the second is empty.
MessageShapes(op) ==
    {<<Frame(1, op, 7, Key1, <<104>>)>>,
     <<Frame(0, op, 7, Key1, <<104>>), Frame(1, OpCodeContinue, 7, Key2, <<105, 106>>)>>,
     <<Frame(0, op, 7, Key2, <<104>>), Ping(<<7>>), Frame(1, OpCodePong, 7, Key1, <<8, 9>>),
       Frame(1, OpCodeContinue, 7, Key1, <<105, 106>>)>>,
     <<Frame(0, op, 7, Key1, <<104>>), Frame(0, OpCodeContinue, 7, Key1, <<>>),
       Frame(1, OpCodeContinue, 7, Key2, <<105, 106>>)>>}

\* Two messages, one after the other.
MessagePairs ==
    {m \o n : m \in MessageShapes(OpCodeText) \cup MessageShapes(OpCodeBinary),
              n \in MessageShapes(OpCodeText) \cup MessageShapes(OpCodeBinary)}

InitSeq == \E fs \in MessagePairs : InitWith(fs)

\* Connections that carry two messages.
SpecSeq == InitSeq /\ [][Next]_vars

\* A Continue frame while no sequence is open: first on the connection or
\* after a whole Binary message, final or not, without payload or with one,
\* alone or followed by another frame.
OrphanConnections ==
    {pre \o <<Frame(fin, OpCodeContinue, ek[1], ek[2], p)>> \o rest :
        pre \in {<<>>, <<Frame(1, OpCodeBinary, 7, Key2, <<0, 255>>)>>,
                 <<Frame(0, OpCodeBinary, 7, Key1, <<0, 255>>),
                   Frame(1, OpCodeContinue, 7, Key2, <<7>>)>>},
        fin \in 0..1, ek \in EncKeys, p \in {<<>>, <<104>>, LongPayload},
        rest \in {<<>>, <<Ping(<<7>>)>>, <<Frame(1, OpCodeBinary, 7, Key1, <<1>>)>>}}

InitOrphan == \E fs \in OrphanConnections : InitWith(fs)

\* Connections on which a Continue frame arrives while no sequence is open.
SpecOrphan == InitOrphan /\ [][Next]_vars

Init ==
    \E fs \in FragmentedMessages \cup SingleTextFrames
              \cup {<<c, f>> : c \in ClosingFrames, f \in FollowingFrames}
              \cup {pre \o <<x>> : pre \in OpeningFrames, x \in AnyHeaderFrames}
              \cup ControlFrames \cup CloseFrames
              \cup SizedConnections(WebsocketMaxSizeKiB) \cup PingConnections
              \cup EmptyFrameConnections \cup MessagePairs \cup OrphanConnections :
        InitWith(fs)

Spec == Init /\ [][Next]_vars

-----------------------------------------------------------------------------
(* What the claims speak about *)

\* The connection at the top of readyRead's loop when k more bytes have
\* reached the transport.
Pending(k) == [World EXCEPT !.io = @ \o Left(wire, k)]

\* The numbers of further bytes with which a turn of the loop is taken.
Turnable == {k \in 0..Len(wire) : closed = 0 /\ ~NeedMoreData(Pending(k), Len(io) + k)}

\* All the bytes of the connection, and how many of them have arrived.
Stream == WireOfAll(frames)
Fed == Len(Stream) - Len(wire)

\* The bytes the engine has read from the transport.
Consumed == Fed - Len(io)

\* The offset in Stream at which frame j ends.
EndOf(j) == Len(WireOfAll(SubSeq(frames, 1, j)))

\* The number of frames whose last byte has been read.
Done == Cardinality({j \in 1..Len(frames) : EndOf(j) <= Consumed})

IsData(f) == f.opcode \in {OpCodeContinue, OpCodeText, OpCodeBinary}

RECURSIVE DataPayloads(_)
\* The payloads of the data frames of fs, concatenated in wire order.
DataPayloads(fs) ==
    IF fs = <<>> THEN <<>>
    ELSE (IF IsData(Head(fs)) THEN Head(fs).payload ELSE <<>>) \o DataPayloads(Tail(fs))

RECURSIVE Flatten(_)
Flatten(ss) == IF ss = <<>> THEN <<>> ELSE Head(ss) \o Flatten(Tail(ss))

\* The logged events of one kind, and the data they carried, concatenated.
Events(kind) == SelectSeq(log, LAMBDA e : e.ev = kind)
DataOf(kind) == Flatten([i \in 1..Len(Events(kind)) |-> Events(kind)[i].data])

IsValidUtf8(bytes) ==
    convertToUnicode(bytes).invalidChars = 0 /\ convertToUnicode(bytes).remainingChars = 0

\* The UTF-8 decoding of bytes: the code point of every sequence, in order,
\* U+FEFF included wherever EF BB BF stands.
Utf8Decoding(bytes) == convertToUnicode(bytes).str

\* A text message of a Text frame followed by Continue frames only.
IsPlainTextMessage ==
    /\ frames[1].opcode = OpCodeText
    /\ \A i \in 2..Len(frames) : frames[i].opcode = OpCodeContinue

-----------------------------------------------------------------------------
(* Claims on fragmented messages, under SpecFrag *)

\* C1: chunk independence.  However the bytes that have arrived so far were
\* split into successive reads, the Socket, the unread bytes and the whole
\* sequence of callbacks and writes are what one readyRead over the same
\* bytes produces.
C1_ChunkIndependence ==
    ~ioError => World = readyRead(World0(Left(Stream, Fed)))

\* C1 witness: a complete message was delivered after some read had ended in
\* the middle of a frame.
C1_Witness ==
    /\ split /\ ~ioError /\ wire = <<>> /\ closed = 0
    /\ Len(Events("textMessage")) = 1
    /\ Len(Events("write")) = 2

\* C5 (as claimed): a text message whose reassembled bytes are not valid
\* UTF-8 is never delivered through the message-level text callback.
C5_InvalidTextNeverDelivered ==
    (frames[1].opcode = OpCodeText /\ ~IsValidUtf8(DataPayloads(frames)))
        => Events("textMessage") = <<>>

\* The data frames among the first j frames.
DataFramesUpTo(j) == SelectSeq(SubSeq(frames, 1, j), IsData)

\* Some fragment of the message other than the last ends inside a code point.
SomeFragmentEndsInsideCodepoint ==
    \E i \in 1..(Len(frames) - 1) :
        convertToUnicode(DataPayloads(SubSeq(frames, 1, i))).remainingChars > 0

\* C6 (as claimed): in a text message, a non-final fragment that ends inside
\* a code point
\* does not close the connection; once a later fragment completes the code
\* point, the frame-level callbacks have delivered all the text received so
\* far, and at FIN the message-level callback carries the decoding of all
\* the fragment payloads together.
C6_SplitCodepointDeferred ==
    LET j == Done
        d == convertToUnicode(DataPayloads(SubSeq(frames, 1, j)))
    IN  (frames[1].opcode = OpCodeText /\ ~ioError /\ j >= 1 /\ d.invalidChars = 0
           /\ SomeFragmentEndsInsideCodepoint)
        => /\ j < Len(frames) => closed = 0
           /\ d.remainingChars = 0 =>
                /\ closed = 0
                /\ DataOf("textFrame") = d.str
                /\ Len(Events("textFrame")) <= Len(DataFramesUpTo(j))
           /\ (j = Len(frames) /\ d.remainingChars = 0) =>
                /\ Events("textMessage") = <<Ev("textMessage", d.str, TRUE, 0)>>
                /\ log[Len(log)].ev = "textMessage"

\* The log a text message must produce once its first j fragments are read,
\* every fragment being valid UTF-8 on its own.
ExpectedTextLog(j) ==
    [i \in 1..j |-> Ev("textFrame", Utf8Decoding(frames[i].payload), frames[i].fin = 1, 0)]
    \o (IF j = Len(frames)
        THEN <<Ev("textMessage",
                  Flatten([i \in 1..j |-> Utf8Decoding(frames[i].payload)]), TRUE, 0)>>
        ELSE <<>>)

\* C7 (as claimed): a text message whose fragments are each valid UTF-8
\* yields one
\* frame-level callback per fragment, in wire order, carrying that fragment's
\* text, final only on the last, then one message-level callback carrying the
\* concatenation, and nothing else.
C7_FrameThenMessageCallbacks ==
    (IsPlainTextMessage /\ ~ioError /\ \A i \in 1..Len(frames) : IsValidUtf8(frames[i].payload))
        => log = ExpectedTextLog(Done)

-----------------------------------------------------------------------------
(* Claims on a single text frame, under SpecSingle *)

\* The payload bytes of frame f as they are on the wire of a one-frame
\* connection, each XORed with mask_key[i mod 4].
UnmaskedWire(f) ==
    [i \in 1..Len(f.payload) |->
        Xor8(Stream[2 + Len(f.ext) + 4 + i], f.key[((i - 1) % 4) + 1])]

\* C8 (as claimed): for a single FIN Text frame with a valid UTF-8 payload
\* of length L, in
\* each length encoding: the decoded length is L, the payload held is the
\* wire bytes XOR mask_key[i mod 4], and the engine delivers one frame-level
\* callback with final set, then one message-level callback, both carrying
\* the UTF-8 decoding of the unmasked payload.
C8_SingleTextFrame ==
    LET f == frames[1]
        text == Utf8Decoding(UnmaskedWire(f))
    IN  (IsValidUtf8(f.payload) /\ ~ioError)
        => /\ Consumed >= 2 + Len(f.ext) => sock.websocket_payload_size = Len(f.payload)
           /\ sock.websocket_phase = WebSocketPhasePayload =>
                sock.websocket_payload =
                    SubSeq(UnmaskedWire(f), 1, Len(sock.websocket_payload))
           /\ Done = 0 => log = <<>>
           /\ Done = 1 => log = <<Ev("textFrame", text, TRUE, 0),
                                  Ev("textMessage", text, TRUE, 0)>>

-----------------------------------------------------------------------------
(* Claims on closing, under SpecClose *)

SessionCallbacks == {"textFrame", "textMessage", "binaryFrame", "binaryMessage", "pong"}

\* C2 (as claimed): once a Close frame has been dispatched, the engine reads
\* no further byte and parses no further header.
C2_ProcessingStopsAfterClose ==
    (frames[1].opcode = OpCodeClose /\ Events("closed") # <<>>)
        => /\ Consumed = EndOf(1)
           /\ OpcodeOf(World) = OpCodeClose

\* C3 (as claimed): after connectionClose no frame-level callback, no
\* message-level callback and no pong notification is delivered.
C3_NoDeliveryAfterClose ==
    \A i \in 1..Len(log) : \A j \in (i + 1)..Len(log) :
        log[i].ev = "connectionClose" => log[j].ev \notin SessionCallbacks

\* C4 (as claimed): webSocketClosed fires at most once, and each time it is
\* followed by one close reply written to the transport and then by
\* connectionClose.
C4_ClosedOnceThenReplyThenTeardown ==
    /\ Len(Events("closed")) <= 1
    /\ \A i \in 1..Len(log) :
        log[i].ev = "closed"
            => /\ i + 2 <= Len(log)
               /\ log[i + 1].ev = "write"
               /\ log[i + 1].data[1] = 128 + OpCodeClose
               /\ log[i + 2].ev = "connectionClose"

-----------------------------------------------------------------------------
(* Claims on headers, under SpecHdr *)

\* The frame under test, where it starts in Stream, and what the frames
\* before it have made the engine log.
TestFrame == frames[Len(frames)]
TestStart == EndOf(Len(frames) - 1)
OpeningLog ==
    IF Len(frames) = 1 THEN <<>>
    ELSE IF frames[1].opcode = OpCodeText
    THEN <<Ev("textFrame", toUnicode(frames[1].payload).str, FALSE, 0)>>
    ELSE <<Ev("binaryFrame", frames[1].payload, FALSE, 0)>>

\* The header of the frame under test was answered with a close reply of
\* code 1002 and no reason, then connectionClose; nothing after its two
\* bytes was read and no session callback was made for it.
HeaderRejected ==
    /\ Consumed = TestStart + 2
    /\ closed = 1
    /\ log = OpeningLog \o <<Ev("write", <<136, 2, 3, 234>>, TRUE, 0),
                             Ev("connectionClose", <<>>, TRUE, 0)>>

\* C9: while a continuation sequence is open, a Text or Binary header is
\* rejected with 1002; Continue and control headers that are otherwise legal
\* are accepted; the open sequence keeps its opcode until its FIN Continue
\* frame is dispatched.
C9_OneOpenSequence ==
    LET x == TestFrame
    IN  (Len(frames) = 2 /\ ~ioError)
        => /\ (Fed >= TestStart + 2 /\ x.opcode \in {OpCodeText, OpCodeBinary})
                => HeaderRejected
           /\ (Fed >= TestStart + 2 /\ Fed < TestStart + 6
                 /\ x.opcode \in {OpCodeContinue, OpCodeClose, OpCodePing, OpCodePong}
                 /\ x.mask = 1 /\ x.rsv = 0 /\ (x.fin = 1 \/ x.opcode = OpCodeContinue))
                => /\ closed = 0
                   /\ sock.websocket_phase = WebSocketPhaseMask
                   /\ sock.websocket_need = 4
           /\ (closed = 0 /\ Consumed >= 2
                 /\ ~(Done = 2 /\ x.opcode = OpCodeContinue /\ x.fin = 1))
                => sock.websocket_continue_opcode = frames[1].opcode

\* C9 witness: a Text header arrived while a Binary sequence was open and
\* was rejected.
C9_Witness ==
    /\ Len(frames) = 2 /\ ~ioError
    /\ frames[1].opcode = OpCodeBinary /\ TestFrame.opcode = OpCodeText
    /\ TestFrame.rsv = 0 /\ TestFrame.mask = 1
    /\ Fed >= TestStart + 2
    /\ HeaderRejected

\* The header faults of C10.
HeaderFault(x) ==
    \/ x.mask = 0
    \/ x.rsv # 0
    \/ x.opcode \in 3..7 \cup 11..15
    \/ x.fin = 0 /\ x.opcode \notin {OpCodeText, OpCodeBinary, OpCodeContinue}

\* C10: a header with the mask bit clear, an RSV bit set, a reserved opcode,
\* or FIN clear on a control opcode is rejected: the 1002 close reply is
\* written, connectionClose is called, no session callback is made and
\* nothing further is read.
C10_HeaderFaultsRejected ==
    (HeaderFault(TestFrame) /\ ~ioError /\ Fed >= TestStart + 2) => HeaderRejected

\* C10 witness: a Pong header with RSV1 set has been rejected while the
\* bytes after it were already available.
C10_Witness ==
    /\ TestFrame.rsv = 4 /\ TestFrame.opcode = OpCodePong /\ TestFrame.mask = 1
    /\ TestFrame.fin = 1 /\ ~ioError
    /\ Fed >= TestStart + 7
    /\ Len(io) = 5
    /\ HeaderRejected

-----------------------------------------------------------------------------
(* Claims on control frames, under SpecCtl *)

\* C11: a Ping or Close header whose 7-bit length field is 126 or 127 is
\* rejected with 1002; one with length field 125, FIN set, is accepted and
\* the engine waits for the 4 mask bytes.
C11_ControlLengthLimit ==
    LET x == frames[1]
    IN  (x.opcode \in {OpCodePing, OpCodeClose} /\ ~ioError /\ Fed >= 2)
        => /\ x.len7 \in {126, 127} => HeaderRejected
           /\ (x.len7 = 125 /\ x.fin = 1 /\ Fed < 6)
                => /\ closed = 0
                   /\ log = <<>>
                   /\ sock.websocket_phase = WebSocketPhaseMask
                   /\ sock.websocket_need = 4
                   /\ sock.websocket_payload_size = 125

\* C11 witness: a Ping header with length field 126 has been rejected.
C11_Witness ==
    /\ frames[1].opcode = OpCodePing /\ frames[1].len7 = 126 /\ frames[1].fin = 1
    /\ ~ioError /\ Fed >= 2
    /\ HeaderRejected

\* The engine has dispatched the control frame of the connection.
ControlDispatched ==
    \/ Events("pong") # <<>>
    \/ Events("closed") # <<>>
    \/ \E i \in 1..Len(log) : log[i].ev = "write" /\ log[i].data[1] = 128 + OpCodePong

\* C12 (as claimed): every control frame that is dispatched has FIN set and
\* a 7-bit length of at most 125; a Pong frame with an extended length is
\* never accepted.
C12_ControlFramesFinalAndShort ==
    ControlDispatched => (frames[1].fin = 1 /\ frames[1].len7 <= 125)

-----------------------------------------------------------------------------
(* Claims on Close frames, under SpecCodes *)

\* The Close frame of the connection has been dispatched.
CloseDispatched == ~ioError /\ Done = 1

\* The close code and the reason bytes of a Close payload of two bytes or more.
CodeIn(payload) == (payload[1] * 256) + payload[2]
ReasonIn(payload) == SubSeq(payload, 3, Len(payload))

\* The close frame a server sends for a code and at most 123 reason bytes:
\* FIN and opcode 8, the length, the code big-endian, the reason.
CloseReplyBytes(code, reason) ==
    <<136, 2 + Len(reason), code \div 256, code % 256>> \o reason

\* The close codes that send_closed lets through.
LegalCloseCodes == 3000..4999 \cup {1000, 1001, 1002, 1003, 1007, 1008, 1009, 1010, 1011}

\* The three calls send_closed makes, in order.
CloseLog(code, reason, reply) ==
    <<Ev("closed", reason, TRUE, code), Ev("write", reply, TRUE, 0),
      Ev("connectionClose", <<>>, TRUE, 0)>>

\* C13: the reply to a Close frame with an empty payload is 88 02 03 E8:
\* code 1000 and no reason.
C13_EmptyCloseRepliesNormal ==
    (frames[1].payload = <<>> /\ CloseDispatched)
        => Events("write") = <<Ev("write", <<136, 2, 3, 232>>, TRUE, 0)>>

\* C13 witness: the reply to an empty Close frame has been written.
C13_Witness ==
    /\ frames[1].payload = <<>> /\ CloseDispatched
    /\ Len(Events("write")) = 1
    /\ closed = 1

\* C14 (as claimed): for a Close frame with an empty payload the
\* connection-closed notification reports code 1000 and an empty reason.
C14_EmptyCloseReportsNormal ==
    (frames[1].payload = <<>> /\ CloseDispatched)
        => Events("closed") = <<Ev("closed", <<>>, TRUE, 1000)>>

\* C15 (as claimed): for a Close payload with a legal close code and a
\* reason that is
\* valid UTF-8, the notification reports that code and reason and the reply
\* carries that code and the reason bytes.
C15_LegalCloseEchoed ==
    LET p == frames[1].payload
    IN  (Len(p) >= 2 /\ CodeIn(p) \in LegalCloseCodes /\ IsValidUtf8(ReasonIn(p))
           /\ CloseDispatched)
        => log = CloseLog(CodeIn(p), Utf8Decoding(ReasonIn(p)),
                          CloseReplyBytes(CodeIn(p), ReasonIn(p)))

\* C16: for a close code outside 3000..4999 that is none of 1000, 1001, 1002,
\* 1003, 1005, 1007, 1008, 1009, 1010, 1011 the reply carries 1002 and no
\* reason, whatever reason bytes came.
C16_IllegalCodeRepliesProtocolError ==
    LET p == frames[1].payload
    IN  (Len(p) >= 2 /\ CodeIn(p) \notin LegalCloseCodes /\ CodeIn(p) # 1005
           /\ CloseDispatched)
        => Events("write") = <<Ev("write", <<136, 2, 3, 234>>, TRUE, 0)>>

\* C16 witness: code 1006 with the reason "h" has been answered with 1002.
C16_Witness ==
    /\ frames[1].payload = <<3, 238, 104>> /\ CloseDispatched
    /\ Events("write") = <<Ev("write", <<136, 2, 3, 234>>, TRUE, 0)>>

\* C17: a Close payload of one byte, or one whose reason bytes are not valid
\* UTF-8, is answered with 1002 and no reason, whatever its close code.
C17_MalformedCloseRepliesProtocolError ==
    LET p == frames[1].payload
    IN  (CloseDispatched /\ (Len(p) = 1 \/ (Len(p) >= 2 /\ ~IsValidUtf8(ReasonIn(p)))))
        => Events("write") = <<Ev("write", <<136, 2, 3, 234>>, TRUE, 0)>>

\* C17 witness: code 3000 with the reason FF has been answered with 1002.
C17_Witness ==
    /\ frames[1].payload = <<11, 184, 255>> /\ CloseDispatched
    /\ Events("write") = <<Ev("write", <<136, 2, 3, 234>>, TRUE, 0)>>

\* C31 (as claimed): when the reply to a Close frame carries 1002 and the
\* payload carried another code, the reply has no reason; so for the code
\* 1005 followed by a valid UTF-8 reason.
C31_RewrittenCodeHasNoReason ==
    LET p == frames[1].payload
    IN  (/\ CloseDispatched /\ Len(p) >= 2 /\ CodeIn(p) # CloseCodeProtocolError
         /\ Events("write") # <<>>
         /\ SubSeq(Events("write")[1].data, 3, 4) = CodeBytes(CloseCodeProtocolError))
        => Events("write") = <<Ev("write", <<136, 2, 3, 234>>, TRUE, 0)>>

-----------------------------------------------------------------------------
(* Claims on the maximum message size, under SpecSize *)

\* C18: when the extended length is above the configured maximum the engine
\* calls connectionClose and nothing else: no write, no callback, no byte
\* read after the length; when it is not above the maximum the declared
\* length is stored and the engine waits for the 4 mask bytes.
C18_ExtendedLengthLimit ==
    LET x == frames[1]
        sizeEnd == 2 + Len(x.ext)
    IN  (x.len7 \in {126, 127} /\ ~ioError /\ Fed >= sizeEnd)
        => IF U64Less(U64(m_websockets_max_size), Declared(x))
           THEN /\ Consumed = sizeEnd
                /\ closed = 1
                /\ log = <<Ev("connectionClose", <<>>, TRUE, 0)>>
           ELSE Fed < sizeEnd + 4
                    => /\ closed = 0
                       /\ log = <<>>
                       /\ sock.websocket_payload_size = ToInt(Declared(x))
                       /\ sock.websocket_phase = WebSocketPhaseMask
                       /\ sock.websocket_need = 4

\* C18 witness: a 64-bit length of 2^32 + 3 has closed the connection while
\* the bytes of the next frame were already available.
C18_Witness ==
    /\ frames[1].ext = <<0, 0, 0, 1, 0, 0, 0, 3>> /\ ~ioError
    /\ websocketMaxSize = WebsocketMaxSizeKiB
    /\ wire = <<>>
    /\ Consumed = 10
    /\ log = <<Ev("connectionClose", <<>>, TRUE, 0)>>

\* C19 (as claimed): websocket_payload and websocket_message never hold more
\* bytes than the configured maximum message size.
C19_BuffersWithinMaximum ==
    /\ Len(sock.websocket_payload) <= m_websockets_max_size
    /\ Len(sock.websocket_message) <= m_websockets_max_size

-----------------------------------------------------------------------------
(* Claims on the header encoding, under SpecLen *)

\* The header createWebsocketHeader is to produce for opcode and the quint64
\* len: 0x80 | opcode, then the length itself below 126, 126 and 2 big-endian
\* bytes up to 65535, 127 and 8 big-endian bytes above.
ExpectedHeader(opcode, len) ==
    IF len \in {U64(n) : n \in 0..125} THEN <<128 + opcode, len[0]>>
    ELSE IF \A k \in 2..7 : len[k] = 0 THEN <<128 + opcode, 126, len[1], len[0]>>
    ELSE <<128 + opcode, 127>> \o BigEndian8(len)

\* C20: the header made for a length L has the first byte 0x80 | opcode, the
\* mask bit clear and the length in the encoding of its range, and the
\* engine's length decoding reads exactly L back from it.
C20_LengthRoundTrip ==
    /\ trip.step \in {"encoded", "decoded"}
        => /\ trip.header = ExpectedHeader(trip.opcode, trip.len)
           /\ trip.header[2] < 128
    /\ trip.step = "decoded" => trip.decoded = trip.len

\* C20 witness: the length 2^33 went out with the pong opcode in the 64-bit
\* encoding and was read back.
C20_Witness ==
    /\ trip.step = "decoded"
    /\ trip.opcode = OpCodePong
    /\ trip.len = U64With(4, 2, 0)
    /\ trip.header = <<138, 127, 0, 0, 0, 2, 0, 0, 0, 0>>
    /\ trip.decoded = trip.len

-----------------------------------------------------------------------------
(* Claims on the close reply, under SpecReply *)

\* The UTF-8 encoding of the code points the reasons are made of.
KnownUtf8(c) ==
    IF c = 97 THEN <<97>>
    ELSE IF c = 98 THEN <<98>>
    ELSE IF c = 233 THEN <<195, 169>>
    ELSE IF c = 8364 THEN <<226, 130, 172>>
    ELSE <<240, 159, 152, 128>>

\* Byte i of the encoding of a reason made by ReasonOf: the letters a, the
\* bytes of its one other code point, the letters b.
ReasonByte(reason, i) ==
    LET a == Cardinality({k \in 1..Len(reason) : reason[k] = 97})
        mid == IF a < Len(reason) /\ reason[a + 1] # 98
               THEN KnownUtf8(reason[a + 1]) ELSE <<>>
    IN  IF i <= a THEN 97
        ELSE IF i <= a + Len(mid) THEN mid[i - a]
        ELSE 98

\* The number of bytes of the encoding of a reason made by ReasonOf.
ReasonBytes(reason) ==
    Cardinality({k \in 1..Len(reason) : reason[k] \in {97, 98}})
    + (IF \E k \in 1..Len(reason) : reason[k] \notin {97, 98}
       THEN Len(KnownUtf8(CHOOSE c \in {233, 8364, 128512} :
                              \E k \in 1..Len(reason) : reason[k] = c))
       ELSE 0)

\* C21: the close reply is a Close header declaring the payload length, then
\* the 2 big-endian bytes of the code, then the first min(n, 123) bytes of
\* the n bytes of the UTF-8 encoding of the reason; the payload is at most
\* 125 bytes.
C21_CloseReplyLayout ==
    trip.step = "replied" =>
        LET n == ReasonBytes(trip.reason)
            kept == Min(n, 123)
        IN  /\ Len(trip.reply) = 4 + kept
            /\ trip.reply[1] = 136
            /\ trip.reply[2] = Len(trip.reply) - 2
            /\ trip.reply[2] <= 125
            /\ trip.reply[3] = trip.code \div 256
            /\ trip.reply[4] = trip.code % 256
            /\ \A i \in 1..kept : trip.reply[4 + i] = ReasonByte(trip.reason, i)

\* C21 witness: a reason of 122 letters and U+20AC, 125 bytes once encoded,
\* went out with code 4999 cut to 123 bytes, in the middle of the code point.
C21_Witness ==
    /\ trip.step = "replied"
    /\ trip.reason = ReasonOf(122, 8364, 0)
    /\ trip.code = 4999
    /\ Len(trip.reply) = 127
    /\ SubSeq(trip.reply, 1, 4) = <<136, 125, 19, 135>>
    /\ trip.reply[127] = 226

-----------------------------------------------------------------------------
(* Claims on Ping frames, under SpecPing *)

\* What the dispatch of one frame of a connection of SpecPing is to leave
\* in the log: for a Ping the unmasked Pong header declaring the length of
\* the Ping's payload and then that payload, for a single-frame Binary
\* message its two callbacks.
FrameLog(f) ==
    IF f.opcode = OpCodePing
    THEN <<Ev("write", <<138, Len(f.payload)>>, TRUE, 0), Ev("write", f.payload, TRUE, 0)>>
    ELSE <<Ev("binaryFrame", f.payload, TRUE, 0), Ev("binaryMessage", f.payload, TRUE, 0)>>

\* C22: every Ping that has been read has caused one Pong frame, byte 0x8A,
\* the unmasked length of the Ping's payload and that payload, to be written,
\* in the order of the Pings, with no session callback; the connection stays
\* open and after each frame the engine awaits a header of 2 bytes.
C22_PingAnsweredByPong ==
    ~ioError =>
        /\ log = Flatten([i \in 1..Done |-> FrameLog(frames[i])])
        /\ closed = 0
        /\ Consumed = EndOf(Done)
            => /\ sock.websocket_phase = WebSocketPhaseHeaders
               /\ sock.websocket_need = 2

\* C22 witness: a Ping of 10 bytes and an empty one have been answered, in
\* that order.
C22_Witness ==
    /\ frames = <<Ping(LongPayload), Ping(<<>>)>> /\ ~ioError
    /\ wire = <<>> /\ io = <<>>
    /\ DataOf("write") = <<138, 10>> \o LongPayload \o <<138, 0>>
    /\ sock.websocket_phase = WebSocketPhaseHeaders

-----------------------------------------------------------------------------
(* Claims on the phases, under SpecFrag *)

\* The phase and need a turn of the loop is to leave, w being the world
\* before the turn and buf the bytes it reads; accepted tells whether the
\* parser of the phase returned true.
PhaseAfter(w, buf, accepted) ==
    IF w.sock.websocket_phase = WebSocketPhaseHeaders THEN
        IF ~accepted THEN {}
        ELSE IF buf[2] % 128 = 126 THEN {<<WebSocketPhaseSize, 2>>}
        ELSE IF buf[2] % 128 = 127 THEN {<<WebSocketPhaseSize, 8>>}
        ELSE {<<WebSocketPhaseMask, 4>>}
    ELSE IF w.sock.websocket_phase = WebSocketPhaseSize THEN
        IF ~accepted THEN {} ELSE {<<WebSocketPhaseMask, 4>>}
    ELSE IF w.sock.websocket_phase = WebSocketPhaseMask THEN
        IF w.sock.websocket_payload_size > 0
        THEN {<<WebSocketPhasePayload, w.sock.websocket_payload_size>>}
        ELSE {<<WebSocketPhaseHeaders, 2>>}
    ELSE IF Len(w.sock.websocket_payload) + Len(buf) < w.sock.websocket_payload_size
    THEN {<<WebSocketPhasePayload, w.sock.websocket_need - Len(buf)>>}
    ELSE {<<WebSocketPhaseHeaders, 2>>}

\* C23: an accepted header leads to the size phase needing 2 or 8 bytes when
\* the length field is 126 or 127 and to the mask phase needing 4 otherwise;
\* the size phase leads to the mask phase needing 4; the mask phase sets the
\* payload phase needing the declared length, which is over at once when
\* that length is 0; the payload phase leads to the header phase needing 2.
\* On an open connection the need is 2 in the header phase, 2 or 8 in the
\* size phase and 4 in the mask phase.
C23_PhaseTransitions ==
    /\ closed = 0 =>
        /\ sock.websocket_phase = WebSocketPhaseHeaders => sock.websocket_need = 2
        /\ sock.websocket_phase = WebSocketPhaseSize => sock.websocket_need \in {2, 8}
        /\ sock.websocket_phase = WebSocketPhaseMask => sock.websocket_need = 4
    /\ \A k \in Turnable :
        /\ \A pn \in PhaseAfter(Pending(k), TurnBuf(Pending(k)), Turn(Pending(k)).ret) :
              /\ Turn(Pending(k)).w.sock.websocket_phase = pn[1]
              /\ Turn(Pending(k)).w.sock.websocket_need = pn[2]
        /\ sock.websocket_phase = WebSocketPhaseMask
            => /\ MaskTaken(Pending(k), TurnBuf(Pending(k))).sock.websocket_phase
                    = WebSocketPhasePayload
               /\ MaskTaken(Pending(k), TurnBuf(Pending(k))).sock.websocket_need
                    = sock.websocket_payload_size

\* C23 witness: the 8 length bytes of a frame have been read, the engine
\* awaits the mask and the next turn takes it to the payload phase.
C23_Witness ==
    /\ frames[1].len7 = 127 /\ frames[1].payload # <<>> /\ ~ioError
    /\ sock.websocket_phase = WebSocketPhaseMask
    /\ Consumed = 10
    /\ 4 \in Turnable
    /\ Turn(Pending(4)).w.sock.websocket_phase = WebSocketPhasePayload
    /\ Turn(Pending(4)).w.sock.websocket_need = Len(frames[1].payload)

\* The frame whose bytes the engine is reading.
CurrentFrame == frames[Done + 1]

\* C24: in the payload phase the payload held and the need add up to the
\* declared length, which the payload held never exceeds.  A turn of the loop
\* that leaves the frame incomplete appends the unmasked bytes it read and
\* lowers the need by their number, and changes nothing else and makes no
\* callback or write; the turn that brings the payload to the declared length
\* is the one that ends the payload phase and dispatches the frame.
C24_PayloadAccounting ==
    sock.websocket_phase = WebSocketPhasePayload =>
        /\ Len(sock.websocket_payload) + sock.websocket_need = sock.websocket_payload_size
        /\ Len(sock.websocket_payload) <= sock.websocket_payload_size
        /\ \A k \in Turnable :
            IF Len(sock.websocket_payload) + Len(TurnBuf(Pending(k)))
                    < sock.websocket_payload_size
            THEN /\ Turn(Pending(k)).ret
                 /\ Turn(Pending(k)).w.sock =
                        [sock EXCEPT
                            !.websocket_payload =
                                SubSeq(CurrentFrame.payload, 1,
                                       Len(@) + Len(TurnBuf(Pending(k)))),
                            !.websocket_need = @ - Len(TurnBuf(Pending(k)))]
                 /\ Turn(Pending(k)).w.log = log
                 /\ Turn(Pending(k)).w.closed = closed
            ELSE /\ Turn(Pending(k)).w.sock.websocket_phase = WebSocketPhaseHeaders
                 /\ Len(sock.websocket_payload) + Len(TurnBuf(Pending(k)))
                        = sock.websocket_payload_size

\* C24 witness: 8 of the 10 bytes of a payload are held, a turn with one more
\* byte leaves the frame incomplete and a turn with two dispatches it.
C24_Witness ==
    /\ frames[1].payload = LongPayload /\ frames[1].opcode = OpCodeBinary /\ ~ioError
    /\ sock.websocket_phase = WebSocketPhasePayload
    /\ Len(sock.websocket_payload) = m_postBufferSize
    /\ 1 \in Turnable /\ 2 \in Turnable
    /\ Turn(Pending(1)).w.sock.websocket_phase = WebSocketPhasePayload
    /\ Turn(Pending(1)).w.sock.websocket_need = 1
    /\ Turn(Pending(2)).w.log # log

\* C25: in the header, size and mask phases, a readyRead that finds fewer
\* bytes available than the need changes nothing: no byte is consumed, no
\* field of the Socket changes, no callback or write is made, and the bytes
\* are still available to the next readyRead.
C25_ShortInputLeftAlone ==
    (closed = 0 /\ sock.websocket_phase # WebSocketPhasePayload) =>
        /\ Len(io) < sock.websocket_need
        /\ \A k \in 0..Len(wire) :
            Len(io) + k < sock.websocket_need => readyRead(Pending(k)) = Pending(k)

\* C25 witness: 7 of the 8 length bytes of a frame are available and unread
\* after two readyRead calls, and the eighth lets the engine go on.
C25_Witness ==
    /\ sock.websocket_phase = WebSocketPhaseSize /\ sock.websocket_need = 8 /\ ~ioError
    /\ Len(io) = 7 /\ Consumed = 2
    /\ log = <<>> /\ closed = 0
    /\ readyRead(Pending(0)) = World
    /\ readyRead(Pending(1)).sock.websocket_phase = WebSocketPhaseMask

-----------------------------------------------------------------------------
(* Claims on frames without payload, under SpecEmpty *)

\* What the dispatch of a final frame without payload is to leave in the log.
EmptyFrameLog(opcode) ==
    IF opcode = OpCodeText
    THEN <<Ev("textFrame", <<>>, TRUE, 0), Ev("textMessage", <<>>, TRUE, 0)>>
    ELSE IF opcode = OpCodeBinary
    THEN <<Ev("binaryFrame", <<>>, TRUE, 0), Ev("binaryMessage", <<>>, TRUE, 0)>>
    ELSE IF opcode = OpCodePing
    THEN <<Ev("write", <<138, 0>>, TRUE, 0), Ev("write", <<>>, TRUE, 0)>>
    ELSE <<Ev("pong", <<>>, TRUE, 0)>>

\* C26: a frame that declares no payload is dispatched by the readyRead that
\* reads its 4 mask bytes, whether or not more input follows: nothing is
\* logged before, and once the mask is read an empty final Text or Binary
\* frame has made its frame and message callbacks with empty content, an
\* empty Ping has been answered by an empty Pong, an empty Pong has been
\* notified, and the engine awaits a header of 2 bytes.
C26_EmptyFrameDispatchedAtOnce ==
    ~ioError =>
        /\ Consumed < EndOf(1) => log = <<>>
        /\ Consumed >= EndOf(1) =>
            /\ Len(log) >= Len(EmptyFrameLog(frames[1].opcode))
            /\ SubSeq(log, 1, Len(EmptyFrameLog(frames[1].opcode)))
                    = EmptyFrameLog(frames[1].opcode)
        /\ Consumed = EndOf(1) =>
            /\ log = EmptyFrameLog(frames[1].opcode)
            /\ closed = 0
            /\ sock.websocket_phase = WebSocketPhaseHeaders
            /\ sock.websocket_need = 2

\* C26 witness: the mask of an empty Ping has just arrived, nothing of the
\* next frame has, and the empty Pong is written.
C26_Witness ==
    /\ frames[1].opcode = OpCodePing /\ Len(frames) = 2
    /\ ~ioError
    /\ Fed = EndOf(1) /\ Consumed = 6
    /\ log = <<Ev("write", <<138, 0>>, TRUE, 0), Ev("write", <<>>, TRUE, 0)>>
    /\ sock.websocket_phase = WebSocketPhaseHeaders

-----------------------------------------------------------------------------
(* Claims on the continuation sequence, under SpecSeq *)

\* The number of frames whose 2 header bytes have been read.
HeadersRead ==
    Cardinality({j \in 1..Len(frames) : (IF j = 1 THEN 0 ELSE EndOf(j - 1)) + 2 <= Consumed})

RECURSIVE OpenAfter(_)
\* The opcode of the sequence that is open once frame j is dispatched: none
\* after a final data frame, the frame's opcode after a non-final Text or
\* Binary frame, and what it was before after any other frame.
OpenAfter(j) ==
    IF j = 0 THEN 0
    ELSE IF IsData(frames[j]) /\ frames[j].fin = 1 THEN 0
    ELSE IF frames[j].opcode \in {OpCodeText, OpCodeBinary} THEN frames[j].opcode
    ELSE OpenAfter(j - 1)

\* The opcode of the sequence that is open once the header of frame j is
\* accepted.
OpenAtHeader(j) ==
    IF frames[j].opcode \in {OpCodeText, OpCodeBinary} /\ frames[j].fin = 0
    THEN frames[j].opcode
    ELSE OpenAfter(j - 1)

\* The last event logged is a message-level callback.
MessageJustDelivered ==
    log # <<>> /\ log[Len(log)].ev \in {"textMessage", "binaryMessage"}

\* C27: websocket_continue_opcode is 0, Text or Binary.  On an open
\* connection it is the opcode of the last non-final Text or Binary frame
\* whose header was accepted, from that header until the final Continue
\* frame of the sequence is dispatched, and 0 otherwise.  Right after a
\* final data frame is dispatched with a message callback it is 0 and
\* websocket_message and websocket_payload are empty.  Accepting a Text or
\* Binary header empties websocket_message and sets
\* websocket_start_of_frame to 0.
C27_ContinuationOpcode ==
    /\ sock.websocket_continue_opcode \in {0, OpCodeText, OpCodeBinary}
    /\ (closed = 0 /\ ~ioError) =>
        /\ sock.websocket_continue_opcode =
              IF HeadersRead = 0 THEN 0
              ELSE IF Done >= HeadersRead THEN OpenAfter(HeadersRead)
              ELSE OpenAtHeader(HeadersRead)
        /\ (Done >= 1 /\ Consumed = EndOf(Done) /\ MessageJustDelivered
                /\ IsData(frames[Done]))
            => /\ sock.websocket_continue_opcode = 0
               /\ sock.websocket_message = <<>>
               /\ sock.websocket_payload = <<>>
    /\ \A k \in Turnable :
        (/\ sock.websocket_phase = WebSocketPhaseHeaders
         /\ TurnBuf(Pending(k))[1] % 16 \in {OpCodeText, OpCodeBinary}
         /\ Turn(Pending(k)).ret)
        => /\ Turn(Pending(k)).w.sock.websocket_message = <<>>
           /\ Turn(Pending(k)).w.sock.websocket_start_of_frame = 0

\* C27 witness: a Text message of two fragments is delivered, which left
\* websocket_start_of_frame at 3, and the header of the non-final Binary
\* frame that follows is accepted: the Binary sequence is open and the
\* offset is back to 0.
C27_Witness ==
    /\ frames[1].opcode = OpCodeText /\ frames[1].fin = 0 /\ frames[2].fin = 1
    /\ frames[3].opcode = OpCodeBinary /\ frames[3].fin = 0
    /\ ~ioError /\ closed = 0
    /\ Consumed = EndOf(2)
    /\ sock.websocket_continue_opcode = 0
    /\ sock.websocket_start_of_frame = 3
    /\ 2 \in Turnable
    /\ Turn(Pending(2)).w.sock.websocket_continue_opcode = OpCodeBinary
    /\ Turn(Pending(2)).w.sock.websocket_start_of_frame = 0

\* Every message of the connection is a Binary one.
AllBinary ==
    \A i \in 1..Len(frames) : frames[i].opcode # OpCodeText

\* The index of the Binary frame that starts the message data frame i
\* belongs to.
StartOf(i) ==
    CHOOSE st \in 1..i :
        /\ frames[st].opcode = OpCodeBinary
        /\ \A j \in (st + 1)..i : frames[j].opcode # OpCodeBinary

\* What the dispatch of frame i of a connection of Binary messages is to
\* leave in the log: for a data frame the frame callback with its payload
\* and FIN bit and, when FIN is set, the message callback with the payloads
\* of the data frames of its message in wire order; for a Ping the Pong, for
\* a Pong the notification.
BinaryFrameLog(i) ==
    IF frames[i].opcode = OpCodePing
    THEN <<Ev("write", <<138, Len(frames[i].payload)>>, TRUE, 0),
           Ev("write", frames[i].payload, TRUE, 0)>>
    ELSE IF frames[i].opcode = OpCodePong
    THEN <<Ev("pong", frames[i].payload, TRUE, 0)>>
    ELSE <<Ev("binaryFrame", frames[i].payload, frames[i].fin = 1, 0)>>
         \o (IF frames[i].fin = 1
             THEN <<Ev("binaryMessage", DataPayloads(SubSeq(frames, StartOf(i), i)), TRUE, 0)>>
             ELSE <<>>)

\* C28: on a connection of Binary messages, single-frame or fragmented, the
\* log is, frame by frame in wire order: one frame callback per data frame
\* with that frame's unmasked payload and FIN bit, followed for the final
\* frame by one message callback with the concatenation of the payloads of
\* the message's Binary and Continue frames; a Ping or Pong between the
\* fragments is dispatched on its own and adds nothing to the message.
C28_BinaryFramesAndMessage ==
    (AllBinary /\ ~ioError) => log = Flatten([i \in 1..Done |-> BinaryFrameLog(i)])

\* C28 witness: a Binary message of two fragments with a Ping and a Pong
\* between them, then one of three fragments, have been delivered whole.
C28_Witness ==
    /\ AllBinary /\ ~ioError /\ Len(frames) = 7 /\ Done = 7
    /\ frames[2].opcode = OpCodePing
    /\ Len(Events("binaryFrame")) = 5
    /\ Events("binaryMessage")
          = <<Ev("binaryMessage", <<104, 105, 106>>, TRUE, 0),
              Ev("binaryMessage", <<104, 105, 106>>, TRUE, 0)>>
    /\ Events("pong") = <<Ev("pong", <<8, 9>>, TRUE, 0)>>

-----------------------------------------------------------------------------
(* Claims on the loop of readyRead, under SpecClose *)

\* A turn of the loop reads at least one byte and at most websocket_need
\* bytes, and takes exactly the bytes it read off the transport.
TurnsBounded ==
    \A k \in Turnable :
        /\ Len(TurnBuf(Pending(k))) >= 1
        /\ Len(TurnBuf(Pending(k))) <= sock.websocket_need
        /\ Turn(Pending(k)).w.io = Mid(Pending(k).io, Len(TurnBuf(Pending(k))))

\* On an open connection the bytes read so far end where the phase says: at
\* the start of a frame, after its 2 header bytes, after its length bytes, or
\* after its mask and the payload bytes held.  No read has taken a byte of a
\* later phase or of the next frame.
PhaseAligned ==
    (closed = 0 /\ ~ioError) =>
        IF Done = Len(frames)
        THEN Consumed = EndOf(Done) /\ sock.websocket_phase = WebSocketPhaseHeaders
        ELSE Consumed =
                EndOf(Done)
                + (IF sock.websocket_phase = WebSocketPhaseHeaders THEN 0
                   ELSE IF sock.websocket_phase = WebSocketPhaseSize THEN 2
                   ELSE IF sock.websocket_phase = WebSocketPhaseMask
                   THEN 2 + Len(CurrentFrame.ext)
                   ELSE 6 + Len(CurrentFrame.ext) + Len(sock.websocket_payload))

\* Where a readyRead has returned: no input is left, or less than the header,
\* size or mask phase needs, or the connection is closed.
ReturnedForCause ==
    \/ io = <<>>
    \/ sock.websocket_phase # WebSocketPhasePayload /\ Len(io) < sock.websocket_need
    \/ closed >= 1

\* The loop does not go on after a turn that closed the connection.
ClosingTurnIsLast ==
    \A k \in Turnable : Turn(Pending(k)).w.closed >= 1 => ~Turn(Pending(k)).ret

\* C29 (as claimed): every turn of readyRead's loop returns or reads between
\* 1 and websocket_need bytes, never one of a later phase or frame, and the
\* invocation ends when the input is exhausted, when less is left than the
\* header, size or mask phase needs, or when the connection is closed.
C29_LoopTurnsAndEnds ==
    /\ TurnsBounded
    /\ PhaseAligned
    /\ ReturnedForCause
    /\ ClosingTurnIsLast

-----------------------------------------------------------------------------
(* Claims on a Continue frame outside a sequence, under SpecOrphan *)

\* The index of the first Continue frame that arrives while no sequence is
\* open.
Orphan ==
    CHOOSE c \in 1..Len(frames) :
        /\ frames[c].opcode = OpCodeContinue /\ OpenAfter(c - 1) = 0
        /\ \A j \in 1..(c - 1) : ~(frames[j].opcode = OpCodeContinue /\ OpenAfter(j - 1) = 0)

\* The log of the frames before the Continue frame.
LogBeforeOrphan == Flatten([i \in 1..(Orphan - 1) |-> BinaryFrameLog(i)])

\* C30: a Continue frame that arrives while no sequence is open has its
\* header accepted: the connection stays open and nothing is logged while
\* its length, mask and payload are read.  When its payload is complete the
\* connection is closed, and that is all: no frame callback, no message
\* callback and no write.
C30_OrphanContinueClosesSilently ==
    ~ioError =>
        /\ (Fed >= EndOf(Orphan - 1) + 2 /\ Consumed < EndOf(Orphan))
            => /\ Consumed >= EndOf(Orphan - 1) + 2
               /\ closed = 0
               /\ log = LogBeforeOrphan
        /\ Consumed >= EndOf(Orphan)
            => /\ closed >= 1
               /\ Len(log) > Len(LogBeforeOrphan)
               /\ SubSeq(log, 1, Len(LogBeforeOrphan) + 1)
                    = LogBeforeOrphan \o <<Ev("connectionClose", <<>>, TRUE, 0)>>
        /\ Consumed = EndOf(Orphan)
            => /\ closed = 1
               /\ log = LogBeforeOrphan \o <<Ev("connectionClose", <<>>, TRUE, 0)>>

\* C30 witness: after a whole Binary message a final Continue frame with a
\* payload of one byte has been read to its end, and the connection is
\* closed with nothing but the message delivered.
C30_Witness ==
    /\ Len(frames) = 3 /\ frames[1].opcode = OpCodeBinary /\ frames[1].fin = 1
    /\ frames[2] = Frame(1, OpCodeContinue, 16, Key2, <<104>>)
    /\ ~ioError
    /\ Consumed = EndOf(2) /\ closed = 1
    /\ log = <<Ev("binaryFrame", <<0, 255>>, TRUE, 0), Ev("binaryMessage", <<0, 255>>, TRUE, 0),
               Ev("connectionClose", <<>>, TRUE, 0)>>

=============================================================================
